---- MODULE Spec2Model ----
(***************************************************************************)
(* Deal orchestration of the dealbot: the add-on preprocessing pipeline    *)
(* (DealAddonsService), the per-deal lifecycle (DealService.createDeal    *)
(* with its upload callbacks), the batch fan-out                           *)
(* (DealService.processProvidersInParallel) and the detached IPNI          *)
(* verification task started by IpniAddonStrategy.onUploadComplete.        *)
(***************************************************************************)
EXTENDS Integers, Sequences, FiniteSets, TLC

\* ------------------------------------------------------------------ bounds

\* Longest provider list handed to processProvidersInParallel.
MaxProviders == 3

\* Longest provider list of a whole batch run with every add-on enabled.
MaxBatchProviders == 1

\* maxConcurrency values 1..MaxGroupSize are tried besides the default.
MaxGroupSize == 2

\* Calls of preprocessDeal on one configuration.
MaxRuns == 2

\* Longest polling timeout (maxDurationMs), in ticks.
MaxDuration == 4

\* Longest poll interval (pollIntervalMs), in ticks.
MaxInterval == 2

\* Longest time a status query takes, and a timer fires late, in ticks.
MaxLatency == 1

\* The settle wait before verification, in ticks.
SettleDelay == 2

\* The wait between two root lookups, in ticks.
RetryInterval == 1

\* Longest phase timeout of the verification (ipniTimeoutMs), in ticks.
MaxPhase == 5

\* Longest list of block identifiers.
MaxBlocks == 2

\* The longest preset handed to parseDuration
MaxLen == 5

\* The largest size of the data file, in bytes.
MaxSize == 2

\* ------------------------------------------------ constants of the program

\* processProvidersInParallel(providers, dealInput, maxConcurrency = 10)
DefaultMaxConcurrency == 10

\* const maxRetries of verifyRootCID
maxRetries == 5

\* enum AddonPriority
HIGH == 1
MEDIUM == 5
LOW == 10

AddonPriority == {HIGH, MEDIUM, LOW}

\* enum ServiceType, the add-on names
DIRECT_SP == "direct_sp"
CDN == "cdn"
IPFS_PIN == "ipfs_pin"

\* enum DealStatus
PENDING == "pending"
UPLOADED == "uploaded"
PIECE_ADDED == "piece_added"
DEAL_CREATED == "deal_created"
FAILED == "failed"

DealStatus == {PENDING, UPLOADED, PIECE_ADDED, DEAL_CREATED, FAILED}

\* enum IpniStatus
IPNI_PENDING == "ipni_pending"
SP_INDEXED == "sp_indexed"
SP_ADVERTISED == "sp_advertised"
SP_RECEIVED_RETRIEVE_REQUEST == "sp_received_retrieve_request"
VERIFIED == "verified"
IPNI_FAILED == "ipni_failed"

\* null / undefined of the program: of a string, of an object, of a Deal reference
NULL == "null"
NoRecord == [null |-> TRUE]
NoDeal == 0

\* METADATA_KEYS of the SDK used by the strategies
WITH_CDN == "withCDN"
WITH_IPFS_INDEXING == "withIPFSIndexing"
IPFS_ROOT_CID == "ipfsRootCid"

\* ------------------------------------------------------------------- state

VARIABLES
    \* DealAddonsService and one preprocessDeal run
    config,          \* DealConfiguration: [enableCDN, enableIpni]
    addons,          \* this.addons, in registration (Map insertion) order
    ppc,             \* position of preprocessDeal
    sortedAddons,    \* sortedAddons of preprocessDeal
    context,         \* AddonExecutionContext of executePreprocessingPipeline
    appliedAddons,   \* appliedAddons of executePreprocessingPipeline
    preprocessed,    \* what preprocessDeal returned (NoRecord before / on failure)
    pipelineError,   \* the error preprocessDeal rejected with (NULL if none)
    preprocessCalls, \* how often preprocessDeal was called
    \* DealService.createDealsForAllProviders / processProvidersInParallel
    providers,       \* getTestingProviders(): the provider list
    spRecords,       \* the addresses storageProviderRepository has a record of
    maxConcurrency,  \* group size
    bpc,             \* position of createDealsForAllProviders
    dataFile,        \* what fetchDataFile returned
    fetchCalls,      \* the calls of the dataset source, in order
    fetchFailures,   \* the dataset sources whose fetch rejected
    i,               \* loop variable of processProvidersInParallel
    results,         \* results of processProvidersInParallel
    groups,          \* the batches sliced so far
    returned,        \* successfulDeals returned by createDealsForAllProviders
    batchError,      \* the error createDealsForAllProviders rejected with
    \* DealService.createDeal, one per provider
    deal,            \* the Deal entity of each createDeal
    dpc,             \* position of each createDeal
    cb,              \* upload callbacks fired: 0 none, 1 upload-complete, 2 piece-added
    thrown,          \* the error caught by createDeal's catch block
    outcome,         \* how each createDeal settled
    dealInput,       \* the dealInput each createDeal was called with
    createCalls,     \* how often createDeal was called per provider
    hookCalls,       \* add-on hook invocations per deal
    hookRejected,    \* the hooks whose promise rejected, per deal
    saveCount,       \* dealRepository.save calls per deal
    saveFailed,      \* whether the save of createDeal's finally block failed
    lastSave,        \* the Deal as last handed to dealRepository.save
    \* IpniAddonStrategy.startIpniMonitoring, one per deal
    mon,             \* position of the verification task
    \* IpniAddonStrategy.monitorPieceStatus, one call
    mpc,             \* position of monitorPieceStatus
    now,             \* Date.now(), in ticks
    startTime,       \* const startTime
    maxDurationMs,   \* parameter maxDurationMs, in ticks
    pollIntervalMs,  \* parameter pollIntervalMs, in ticks
    lastStatus,      \* let lastStatus
    checkCount,      \* let checkCount
    monitoringResult, \* the PieceMonitoringResult returned
    queryAt,         \* when the latest getPieceStatus was issued
    firstSeen,       \* when a poll first answered indexed / advertised true
    sawRetrieved,    \* whether a poll answered retrieved true
    resolved,        \* how many getPieceStatus calls resolved
    \* IpniAddonStrategy.startIpniMonitoring of one Deal, step by step
    vpc,             \* position of the task after it called monitorAndVerifyIPNI
    tracked,         \* the Deal of the task: its status and IPNI columns
    ipniTimeoutMs,   \* parameter ipniTimeoutMs (maxDurationMs of the verification)
    blockCIDs,       \* parameter blockCIDs
    retry,           \* let retry of verifyRootCID
    rootCIDResult,   \* const rootCIDResult
    blockIdx,        \* position of verifyBlockCIDs in blockCIDs
    blockCIDsVerified, \* let verified of verifyBlockCIDs
    failedCIDs,      \* const failedCIDs
    ipniResult,      \* the IPNIVerificationResult returned
    verifyStart,     \* const startTime of verifyIPNIAdvertisement
    pollEndedAt,     \* when monitorPieceStatus settled
    lookupAt,        \* when the latest queryIPNI was issued
    firstLookupAt,   \* when the first queryIPNI was issued
    lookupCount,     \* queryIPNI calls per identifier
    lookupHit,       \* identifiers for which queryIPNI answered the expected address
    trackedSaves,    \* dealRepository.save calls of the task
    trackedSaved,    \* the Deal as last handed to dealRepository.save by the task
    \* parseDuration, one call
    preset,          \* parameter preset, as a sequence of characters
    parsePc,         \* position of the call
    parsed,          \* the ParsedDuration returned
    parseError,      \* the message of the Error thrown
    \* one iteration of the loop of executePreprocessingPipeline, by its awaits
    pendingResult,   \* result of the loop, while validate is awaited
    currentSize,     \* context.currentData.size
    trace            \* per add-on started: what it was handed and returned

pipeVars == <<config, addons, ppc, sortedAddons, context, appliedAddons,
              preprocessed, pipelineError, preprocessCalls>>
batchVars == <<providers, spRecords, maxConcurrency, bpc, dataFile, fetchCalls, fetchFailures,
               i, results, groups, returned, batchError>>
dealVars == <<deal, dpc, cb, thrown, outcome, dealInput, createCalls, hookCalls, hookRejected,
              saveCount, saveFailed, lastSave, mon>>
pollVars == <<mpc, now, startTime, maxDurationMs, pollIntervalMs, lastStatus, checkCount,
              monitoringResult, queryAt, firstSeen, sawRetrieved, resolved>>
pollVarsButNow == <<mpc, startTime, maxDurationMs, pollIntervalMs, lastStatus, checkCount,
                    monitoringResult, queryAt, firstSeen, sawRetrieved, resolved>>
verifyVars == <<vpc, tracked, ipniTimeoutMs, blockCIDs, retry, rootCIDResult, blockIdx,
                blockCIDsVerified, failedCIDs, ipniResult, verifyStart, pollEndedAt, lookupAt,
                firstLookupAt, lookupCount, lookupHit, trackedSaves, trackedSaved>>
parseVars == <<preset, parsePc, parsed, parseError>>
stepVars == <<pendingResult, currentSize, trace>>
vars == <<pipeVars, batchVars, dealVars, pollVars, verifyVars, parseVars, stepVars>>

\* ----------------------------------------------------------------- helpers

Range(s) == {s[k] : k \in 1..Len(s)}

Min(a, b) == IF a < b THEN a ELSE b

\* A Record<string, string> as a set of <<key, value>> pairs with distinct keys.
Keys(m) == {kv[1] : kv \in m}

\* { ...a, ...b } with the operands' precedence swapped: the keys already
\* present are kept
SpreadKeepingFirst(a, b) == a \cup {kv \in b : kv[1] \notin Keys(a)}

\* { ...a, ...b }: the keys of b overwrite those of a
Spread(a, b) == {kv \in a : kv[1] \notin Keys(b)} \cup b

\* --------------------------------------------------------- add-on registry

\* A CDN add-on that ignores the enableCDN flag
CdnNeverApplicable(cfg) == FALSE

\* CdnAddonStrategy.isApplicable
CdnIsApplicable(cfg) == cfg.enableCDN

\* IpniAddonStrategy.isApplicable
IpniIsApplicable(cfg) == cfg.enableIpni

\* DirectAddonStrategy.isApplicable: the default pass-through add-on is the
\* fallback of preprocessDeal and is not selected by a configuration flag.
DirectIsApplicable(cfg) == FALSE

\* An IDealAddon as the service sees it: its name, its priority and what its
\* isApplicable answers for the configuration of this run.
Addon(name, priority, applicable) ==
    [name |-> name, priority |-> priority, applicable |-> applicable]

directAddon(cfg) == Addon(DIRECT_SP, LOW, DirectIsApplicable(cfg))
cdnAddon(cfg) == Addon(CDN, MEDIUM, CdnIsApplicable(cfg))
ipniAddon(cfg) == Addon(IPFS_PIN, HIGH, IpniIsApplicable(cfg))

\* registerAddon: an add-on whose name is already registered is skipped
registerAddon(registry, addon) ==
    IF \E k \in 1..Len(registry) : registry[k].name = addon.name
    THEN registry
    ELSE Append(registry, addon)

\* registerAddons: direct, cdn, ipni, in this order
registerAddons(direct, cdn, ipni) ==
    registerAddon(registerAddon(registerAddon(<<>>, direct), cdn), ipni)

\* this.addons.get(name)
AddonsGet(registry, name) ==
    IF \E k \in 1..Len(registry) : registry[k].name = name
    THEN registry[CHOOSE k \in 1..Len(registry) : registry[k].name = name]
    ELSE NoRecord

\* ------------------------------------------------- preprocessing pipeline

\* getApplicableAddons: the registered add-ons whose isApplicable is true, in
\* registration order
RECURSIVE getApplicableAddons(_)
getApplicableAddons(registry) ==
    IF registry = <<>> THEN <<>>
    ELSE (IF Head(registry).applicable THEN <<Head(registry)>> ELSE <<>>)
         \o getApplicableAddons(Tail(registry))

\* A comparator with its operands swapped: b.priority - a.priority
ComparePriorityDescending(a, b) == b.priority - a.priority

\* (a, b) => a.priority - b.priority  <= 0: a stays before b
ComparePriority(a, b) == a.priority - b.priority

\* One insertion of the stable sort: x goes after every element that does not
\* compare greater than it.
RECURSIVE InsertSorted(_, _)
InsertSorted(sorted, x) ==
    IF sorted = <<>> THEN <<x>>
    ELSE IF ComparePriority(Head(sorted), x) <= 0
         THEN <<Head(sorted)>> \o InsertSorted(Tail(sorted), x)
         ELSE <<x>> \o sorted

RECURSIVE SortFrom(_, _)
SortFrom(sorted, rest) ==
    IF rest = <<>> THEN sorted
    ELSE SortFrom(InsertSorted(sorted, Head(rest)), Tail(rest))

\* sortAddonsByPriority: [...addons].sort((a, b) => a.priority - b.priority),
\* Array.prototype.sort being stable
sortAddonsByPriority(list) == SortFrom(<<>>, list)

\* preprocessDeal without the fallback to the direct add-on
SelectAddonsWithoutFallback(registry) ==
    sortAddonsByPriority(getApplicableAddons(registry))

\* The add-ons preprocessDeal executes: the applicable ones, or the direct
\* add-on when none applies, sorted by priority.
SelectAddons(registry) ==
    LET applicable == getApplicableAddons(registry)
        direct == AddonsGet(registry, DIRECT_SP)
    IN  sortAddonsByPriority(IF Len(applicable) = 0 THEN <<direct>> ELSE applicable)

\* preprocessData of the strategies: the data an add-on returns. IPNI converts
\* the payload to a CAR, CDN and direct pass it through.
PreprocessedData(addon, data) ==
    IF addon.name = IPFS_PIN THEN Append(data, "car") ELSE data

\* preprocessData of the strategies: the metadata an add-on returns
PreprocessedMetadata(addon) ==
    [enabled |-> TRUE,
     rootCID |-> IF addon.name = IPFS_PIN THEN "bafyroot" ELSE NULL]

\* dealMetadata[name]
MetadataOf(dealMetadata, name) ==
    IF name \in Keys(dealMetadata)
    THEN (CHOOSE kv \in dealMetadata : kv[1] = name)[2]
    ELSE NoRecord

\* An IDealAddon other than the shipped strategies: its getSynapseConfig
\* returns exports, or is absent when exports is NoRecord.
StubAddon(name, priority, applicable, exports) ==
    [name |-> name, priority |-> priority, applicable |-> applicable, exports |-> exports]

\* addon.getSynapseConfig?.(dealMetadata): of the strategies, or of a stub
getSynapseConfig(addon, dealMetadata) ==
    CASE "exports" \in DOMAIN addon -> addon.exports
      [] addon.name = CDN ->
            [dataSetMetadata |-> {<<WITH_CDN, "">>}, pieceMetadata |-> {}]
      [] addon.name = IPFS_PIN ->
            IF MetadataOf(dealMetadata, IPFS_PIN) = NoRecord
            THEN [dataSetMetadata |-> {}, pieceMetadata |-> {}]
            ELSE IF MetadataOf(dealMetadata, IPFS_PIN).rootCID = NULL
            THEN [dataSetMetadata |-> {}, pieceMetadata |-> {}]
            ELSE [dataSetMetadata |-> {<<WITH_IPFS_INDEXING, "">>},
                  pieceMetadata |->
                      {<<IPFS_ROOT_CID, MetadataOf(dealMetadata, IPFS_PIN).rootCID>>}]
      [] OTHER -> [dataSetMetadata |-> {}, pieceMetadata |-> {}]

\* mergeSynapseConfigs: an add-on without configuration is skipped, later
\* add-ons overwrite the keys of earlier ones
RECURSIVE mergeSynapseConfigs(_, _, _)
mergeSynapseConfigs(list, dealMetadata, merged) ==
    IF list = <<>> THEN merged
    ELSE LET cfg == getSynapseConfig(Head(list), dealMetadata)
         IN  IF cfg = NoRecord
             THEN mergeSynapseConfigs(Tail(list), dealMetadata, merged)
             ELSE mergeSynapseConfigs(Tail(list), dealMetadata,
                     [dataSetMetadata |-> Spread(merged.dataSetMetadata, cfg.dataSetMetadata),
                      pieceMetadata |-> Spread(merged.pieceMetadata, cfg.pieceMetadata)])

EmptyContext == [currentData |-> <<>>, accumulatedMetadata |-> {}]

\* An execution context kept by the service from one call to the next
RetainedContext(file) == context

\* The execution context executePreprocessingPipeline starts from
NewContext(file) == [currentData |-> file, accumulatedMetadata |-> {}]

\* preprocessDeal up to the first await: select and sort the add-ons and
\* initialise the execution context and the applied-addon list.
BeginPreprocess ==
    /\ sortedAddons' = SelectAddons(addons)
    /\ context' = NewContext(dataFile)
    /\ appliedAddons' = <<>>
    /\ preprocessCalls' = preprocessCalls + 1
    /\ ppc' = "pipeline"
    /\ UNCHANGED <<config, addons, preprocessed, pipelineError>>
    /\ UNCHANGED <<batchVars, dealVars, pollVars, verifyVars, parseVars, stepVars>>

\* createDealsForAllProviders calls preprocessDeal.
PreprocessDeal ==
    /\ ppc = "idle"
    /\ bpc = "preprocess"
    /\ BeginPreprocess

\* preprocessDeal is called again with the same configuration after it
\* returned.
PreprocessDealAgain ==
    /\ ppc = "done"
    /\ bpc = "preprocess"
    /\ preprocessCalls < MaxRuns
    /\ BeginPreprocess

\* The add-on the pipeline loop is at
CurrentAddon == sortedAddons[Len(appliedAddons) + 1]

\* One iteration of the loop of executePreprocessingPipeline: preprocessData
\* and validate of the add-on succeed; the context is updated for the next.
ExecuteAddon ==
    /\ ppc = "pipeline"
    /\ Len(appliedAddons) < Len(sortedAddons)
    /\ context' =
          [currentData |-> PreprocessedData(CurrentAddon, context.currentData),
           accumulatedMetadata |->
              Spread(context.accumulatedMetadata,
                     {<<CurrentAddon.name, PreprocessedMetadata(CurrentAddon)>>})]
    /\ appliedAddons' = Append(appliedAddons, CurrentAddon.name)
    /\ UNCHANGED <<config, addons, ppc, sortedAddons, preprocessed, pipelineError,
                   preprocessCalls>>
    /\ UNCHANGED <<batchVars, dealVars, pollVars, verifyVars, parseVars, stepVars>>

\* What preprocessData or validate of an add-on may throw, by its message
FailureCauses == {"preprocessData failed", "validation failed"}

\* An error of the loop's catch that does not say which add-on failed
PipelineErrorUnnamed(addon, cause) == "Add-on preprocessing failed: " \o cause

\* new Error(`Add-on ${addon.name} preprocessing failed: ${error.message}`)
PipelineError(addon, cause) ==
    "Add-on " \o addon.name \o " preprocessing failed: " \o cause

\* new Error(`Deal preprocessing failed: ${error.message}`)
PreprocessError(message) == "Deal preprocessing failed: " \o message

\* One iteration of the loop in which preprocessData or validate throws: the
\* loop's catch names the add-on, preprocessDeal's catch wraps and rethrows.
AddonFails ==
    /\ ppc = "pipeline"
    /\ Len(appliedAddons) < Len(sortedAddons)
    /\ \E cause \in FailureCauses :
          pipelineError' = PreprocessError(PipelineError(CurrentAddon, cause))
    /\ ppc' = "failed"
    /\ UNCHANGED <<config, addons, sortedAddons, context, appliedAddons, preprocessed,
                   preprocessCalls>>
    /\ UNCHANGED <<batchVars, dealVars, pollVars, verifyVars, parseVars, stepVars>>

\* The value preprocessDeal returns
PreprocessingResult ==
    [processedData |-> context.currentData,
     metadata |-> context.accumulatedMetadata,
     synapseConfig |->
        mergeSynapseConfigs(sortedAddons, context.accumulatedMetadata,
                            [dataSetMetadata |-> {}, pieceMetadata |-> {}]),
     appliedAddons |-> appliedAddons]

\* preprocessDeal after the loop: merge the configurations and return.
FinishPreprocess ==
    /\ ppc = "pipeline"
    /\ Len(appliedAddons) = Len(sortedAddons)
    /\ preprocessed' = PreprocessingResult
    /\ ppc' = "done"
    /\ UNCHANGED <<config, addons, sortedAddons, context, appliedAddons, pipelineError,
                   preprocessCalls>>
    /\ UNCHANGED <<batchVars, dealVars, pollVars, verifyVars, parseVars, stepVars>>

\* An IDealAddon whose optional validate is present or absent
ValidatedAddon(name, priority, applicable, validate) ==
    [name |-> name, priority |-> priority, applicable |-> applicable,
     validate |-> validate]

\* if (addon.validate): the CDN and IPNI strategies define validate
HasValidate(addon) ==
    IF "validate" \in DOMAIN addon THEN addon.validate
    ELSE addon.name \in {CDN, IPFS_PIN}

\* carSize of convertToCar: the blocks of the payload and the CAR framing
CarSize(size) == size + 1

\* What preprocessData of an add-on resolves with for the context it is given
PreprocessingOf(addon, data, size) ==
    [data |-> PreprocessedData(addon, data),
     size |-> IF addon.name = IPFS_PIN THEN CarSize(size) ELSE size,
     metadata |-> PreprocessedMetadata(addon)]

\* A context update that leaves the payload of the context as it was
StaleData(current, r) == current

\* data: Buffer.isBuffer(result.data) ? result.data : Buffer.from(result.data)
UpdatedData(current, r) == r.data

\* The loop body after validate: update the context for the next add-on,
\* store the metadata under the add-on's name, note the add-on as applied.
ApplyResult(addon, r) ==
    /\ context' =
          [currentData |-> UpdatedData(context.currentData, r),
           accumulatedMetadata |->
              Spread(context.accumulatedMetadata, {<<addon.name, r.metadata>>})]
    /\ currentSize' = r.size
    /\ appliedAddons' = Append(appliedAddons, addon.name)

\* await addon.preprocessData(context) resolves. With a validate the loop
\* calls it with the result and awaits; without one it goes on to the update.
PreprocessDataSettles ==
    /\ ppc = "pipeline"
    /\ pendingResult = NoRecord
    /\ Len(appliedAddons) < Len(sortedAddons)
    /\ LET r == PreprocessingOf(CurrentAddon, context.currentData, currentSize)
       IN  /\ trace' = Append(trace, [name |-> CurrentAddon.name,
                                      data |-> context.currentData,
                                      size |-> currentSize,
                                      returned |-> r,
                                      validated |-> FALSE])
           /\ IF HasValidate(CurrentAddon)
              THEN /\ pendingResult' = r
                   /\ UNCHANGED <<context, currentSize, appliedAddons>>
              ELSE /\ ApplyResult(CurrentAddon, r)
                   /\ UNCHANGED pendingResult
    /\ UNCHANGED <<config, addons, ppc, sortedAddons, preprocessed, pipelineError,
                   preprocessCalls>>
    /\ UNCHANGED <<batchVars, dealVars, pollVars, verifyVars, parseVars>>

\* await addon.validate(result) resolves: the rest of the loop body runs.
ValidateSettles ==
    /\ ppc = "pipeline"
    /\ pendingResult # NoRecord
    /\ trace' = [trace EXCEPT ![Len(trace)].validated = TRUE]
    /\ ApplyResult(CurrentAddon, pendingResult)
    /\ pendingResult' = NoRecord
    /\ UNCHANGED <<config, addons, ppc, sortedAddons, preprocessed, pipelineError,
                   preprocessCalls>>
    /\ UNCHANGED <<batchVars, dealVars, pollVars, verifyVars, parseVars>>

\* The awaited preprocessData or validate rejects: the loop's catch names
\* the add-on, preprocessDeal's catch wraps and rethrows.
AwaitRejects ==
    /\ ppc = "pipeline"
    /\ Len(appliedAddons) < Len(sortedAddons)
    /\ pipelineError' =
          PreprocessError(PipelineError(CurrentAddon,
              IF pendingResult = NoRecord THEN "preprocessData failed"
              ELSE "validation failed"))
    /\ ppc' = "failed"
    /\ UNCHANGED <<config, addons, sortedAddons, context, appliedAddons, preprocessed,
                   preprocessCalls>>
    /\ UNCHANGED <<batchVars, dealVars, pollVars, verifyVars, parseVars, stepVars>>


\* ------------------------------------------------------- deal lifecycle

Providers == 1..MaxProviders

\* Errors of the collaborators, by their message
FindOneError == "Provider lookup failed"
StorageError == "Storage creation failed"
UploadError == "Upload failed"
SaveError == "Save failed"

\* The optional handlers of IDealAddon
HookKinds == {"onUploadComplete", "postProcess"}

\* An IDealAddon that implements the optional handlers in hooks
HookedAddon(name, priority, applicable, hooks) ==
    [name |-> name, priority |-> priority, applicable |-> applicable, hooks |-> hooks]

\* this.addons.get(name)?.[hook]: the registered add-on implements the handler
Implements(name, hook) ==
    LET addon == AddonsGet(addons, name)
    IN  "hooks" \in DOMAIN addon /\ hook \in addon.hooks

\* The add-ons of the registry that implement onUploadComplete / postProcess.
\* IpniAddonStrategy implements onUploadComplete; neither CdnAddonStrategy
\* nor IpniAddonStrategy implements postProcess.
HasOnUploadComplete(name) == name = IPFS_PIN \/ Implements(name, "onUploadComplete")
HasPostProcess(name) == Implements(name, "postProcess")

\* What a handler of an add-on rejects with
HookError == "Hook failed"

\* dealRepository.create({...status: PENDING, serviceTypes: appliedAddons})
NewDeal(p, input) ==
    [spAddress |-> p,
     status |-> PENDING,
     serviceTypes |-> input.appliedAddons,
     storageProvider |-> NULL,
     dataSetId |-> NULL,
     pieceCid |-> NULL,
     pieceId |-> NULL,
     transactionHash |-> NULL,
     errorMessage |-> NULL,
     ipniStatus |-> NULL]

\* createDeal not recording the dataset id of the storage it created
WithStorageForgotten(d, storage) == d

\* deal.dataSetId = storage.dataSetId
WithStorage(d, storage) == [d EXCEPT !.dataSetId = storage.dataSetId]

\* DealService.handleUploadComplete, up to its call of the add-on hooks
handleUploadComplete(d, pieceCid) ==
    [d EXCEPT !.pieceCid = pieceCid, !.status = UPLOADED]

\* DealService.handleRootAdded
handleRootAdded(d, result) ==
    [d EXCEPT !.status = PIECE_ADDED, !.transactionHash = result.transactionHash]

\* updateDealWithUploadResult marking the deal UPLOADED instead of DEAL_CREATED
updateDealWithUploadResultAsUploaded(d, uploadResult) ==
    [d EXCEPT !.pieceCid = uploadResult.pieceCid,
              !.pieceId = uploadResult.pieceId,
              !.status = UPLOADED]

\* DealService.updateDealWithUploadResult
updateDealWithUploadResult(d, uploadResult) ==
    [d EXCEPT !.pieceCid = uploadResult.pieceCid,
              !.pieceId = uploadResult.pieceId,
              !.status = DEAL_CREATED]

\* A catch block that marks the deal FAILED and drops the error's message
CatchBlockWithoutMessage(d, error) == [d EXCEPT !.status = FAILED]

\* The catch block of createDeal
CatchBlock(d, error) == [d EXCEPT !.status = FAILED, !.errorMessage = error]

\* What the backend hands to the callbacks and returns from upload()
TheStorage == [dataSetId |-> "dataset-123"]
ThePieceCid == "bafk-uploaded"
TheRootAdded == [transactionHash |-> "0xhash"]
TheUploadResult == [pieceCid |-> ThePieceCid, pieceId |-> "piece-123"]

\* dealRepository.save(deal) is called: the entity as it is at the call
IssueSave(p, d) ==
    /\ saveCount' = [saveCount EXCEPT ![p] = @ + 1]
    /\ lastSave' = [lastSave EXCEPT ![p] = d]

\* A catch block that saves the failed deal itself, before the finally block
\* saves it again
ThrowSavingInCatch(p, error) ==
    /\ deal' = [deal EXCEPT ![p] = CatchBlock(deal[p], error)]
    /\ thrown' = [thrown EXCEPT ![p] = error]
    /\ saveCount' = [saveCount EXCEPT ![p] = @ + 2]
    /\ lastSave' = [lastSave EXCEPT ![p] = CatchBlock(deal[p], error)]
    /\ dpc' = [dpc EXCEPT ![p] = "saving"]

\* An error reaches the catch block of createDeal: mark the deal FAILED, then
\* the finally block calls saveDeal.
Throw(p, error) ==
    /\ deal' = [deal EXCEPT ![p] = CatchBlock(deal[p], error)]
    /\ thrown' = [thrown EXCEPT ![p] = error]
    /\ IssueSave(p, CatchBlock(deal[p], error))
    /\ dpc' = [dpc EXCEPT ![p] = "saving"]

\* storageProviderRepository.findOne({ where: { address } })
findOne(address) == IF address \in spRecords THEN "record" ELSE NULL

\* storageProviderRepository.findOne settles: the record (or null) is attached
\* and createStorage is requested, or the lookup throws.
FindOneSettles(p) ==
    /\ dpc[p] = "findOne"
    /\ \/ /\ deal' = [deal EXCEPT ![p].storageProvider = findOne(p)]
          /\ dpc' = [dpc EXCEPT ![p] = "createStorage"]
          /\ UNCHANGED <<thrown, saveCount, lastSave>>
       \/ Throw(p, FindOneError)
    /\ UNCHANGED <<cb, outcome, dealInput, createCalls, hookCalls, hookRejected, saveFailed, mon>>
    /\ UNCHANGED <<pipeVars, batchVars, pollVars, verifyVars, parseVars, stepVars>>

\* synapse.createStorage settles: the dataset id is recorded and upload() is
\* called with the two callbacks, or createStorage throws.
CreateStorageSettles(p) ==
    /\ dpc[p] = "createStorage"
    /\ \/ /\ deal' = [deal EXCEPT ![p] = WithStorage(deal[p], TheStorage)]
          /\ dpc' = [dpc EXCEPT ![p] = "upload"]
          /\ UNCHANGED <<thrown, saveCount, lastSave>>
       \/ Throw(p, StorageError)
    /\ UNCHANGED <<cb, outcome, dealInput, createCalls, hookCalls, hookRejected, saveFailed, mon>>
    /\ UNCHANGED <<pipeVars, batchVars, pollVars, verifyVars, parseVars, stepVars>>

\* The applied add-ons whose onUploadComplete
\* DealAddonsService.handleUploadComplete calls
OnUploadCompleteHooks(d) ==
    {k \in 1..Len(d.serviceTypes) : HasOnUploadComplete(d.serviceTypes[k])}

\* The applied add-ons whose postProcess DealAddonsService.postProcessDeal calls
PostProcessHooks(d) ==
    {k \in 1..Len(d.serviceTypes) : HasPostProcess(d.serviceTypes[k])}

\* An onUploadComplete without the check of deal.storageProvider
IpniTracksWithoutProvider(d) ==
    \E k \in 1..Len(d.serviceTypes) : d.serviceTypes[k] = IPFS_PIN

\* IpniAddonStrategy.onUploadComplete runs for this deal and reaches its save
IpniTracks(d) ==
    /\ \E k \in 1..Len(d.serviceTypes) : d.serviceTypes[k] = IPFS_PIN
    /\ d.storageProvider # NULL

\* IpniAddonStrategy.onUploadComplete up to its save
ipniOnUploadComplete(d) == [d EXCEPT !.ipniStatus = IPNI_PENDING]

\* The onUploadComplete handlers of the applied add-ons other than
\* IpniAddonStrategy's
OtherUploadCompleteHooks(d) ==
    {k \in OnUploadCompleteHooks(d) : d.serviceTypes[k] # IPFS_PIN}

\* The handlers of this kind rejected for deal p, or did not
NoteHooks(p, kind, rejects) ==
    hookRejected' = [hookRejected EXCEPT ![p] = IF rejects THEN @ \cup {kind} ELSE @]

\* The backend fires onUploadComplete: DealService.handleUploadComplete, then
\* the onUploadComplete hooks of the applied add-ons up to their first await.
\* A handler other than IpniAddonStrategy's awaits nothing and resolves or
\* rejects at once; when one rejects, Promise.all rejects, the catch logs, and
\* the callback returns while the save of IpniAddonStrategy's handler is
\* still pending.
UploadCompleteFires(p) ==
    /\ dpc[p] = "upload"
    /\ cb[p] = 0
    /\ cb' = [cb EXCEPT ![p] = 1]
    /\ hookCalls' = [hookCalls EXCEPT
                        ![p] = @ + Cardinality(OnUploadCompleteHooks(deal[p]))]
    /\ \E rejects \in {r \in BOOLEAN : r => OtherUploadCompleteHooks(deal[p]) # {}} :
       LET d == handleUploadComplete(deal[p], ThePieceCid)
       IN  /\ NoteHooks(p, "onUploadComplete", rejects)
           /\ IF IpniTracks(d)
              THEN /\ deal' = [deal EXCEPT ![p] = ipniOnUploadComplete(d)]
                   /\ IssueSave(p, ipniOnUploadComplete(d))
                   /\ IF rejects
                      THEN /\ mon' = [mon EXCEPT ![p] = "hookSaving"]
                           /\ UNCHANGED dpc
                      ELSE /\ dpc' = [dpc EXCEPT ![p] = "hookSave"]
                           /\ UNCHANGED mon
              ELSE /\ deal' = [deal EXCEPT ![p] = d]
                   /\ UNCHANGED <<dpc, saveCount, lastSave, mon>>
    /\ UNCHANGED <<thrown, outcome, dealInput, createCalls, saveFailed>>
    /\ UNCHANGED <<pipeVars, batchVars, pollVars, verifyVars, parseVars, stepVars>>

\* An onUploadComplete that awaits startIpniMonitoring: createDeal stays in
\* the hook while the task runs
AfterMonitorStartAwaited == "monitoring"

\* Where createDeal continues once onUploadComplete has started the
\* verification task: startIpniMonitoring(deal).catch(...) is not awaited, the
\* hook and the callback return and the upload goes on.
AfterMonitorStart == "upload"

\* The save of IpniAddonStrategy.onUploadComplete settles. On success the
\* verification task is started and not awaited; a failure rejects the hook,
\* which DealAddonsService.handleUploadComplete logs and swallows.
HookSaveSettles(p) ==
    /\ dpc[p] = "hookSave"
    /\ \/ /\ mon' = [mon EXCEPT ![p] = "running"]
          /\ dpc' = [dpc EXCEPT ![p] = AfterMonitorStart]
          /\ UNCHANGED hookRejected
       \/ /\ mon' = [mon EXCEPT ![p] = "unstarted"]
          /\ dpc' = [dpc EXCEPT ![p] = "upload"]
          /\ NoteHooks(p, "onUploadComplete", TRUE)
    /\ UNCHANGED <<deal, cb, thrown, outcome, dealInput, createCalls, hookCalls,
                   saveCount, saveFailed, lastSave>>
    /\ UNCHANGED <<pipeVars, batchVars, pollVars, verifyVars, parseVars, stepVars>>

\* The save of IpniAddonStrategy.onUploadComplete settles after the callback
\* has returned: on success the verification task is started, a failure
\* rejects a promise that Promise.all has already given up on.
DetachedHookSaveSettles(p) ==
    /\ mon[p] = "hookSaving"
    /\ \/ mon' = [mon EXCEPT ![p] = "running"]
       \/ mon' = [mon EXCEPT ![p] = "unstarted"]
    /\ UNCHANGED <<deal, dpc, cb, thrown, outcome, dealInput, createCalls, hookCalls,
                   hookRejected, saveCount, saveFailed, lastSave>>
    /\ UNCHANGED <<pipeVars, batchVars, pollVars, verifyVars, parseVars, stepVars>>

\* The backend fires onPieceAdded, after onUploadComplete.
PieceAddedFires(p) ==
    /\ dpc[p] = "upload"
    /\ cb[p] = 1
    /\ cb' = [cb EXCEPT ![p] = 2]
    /\ deal' = [deal EXCEPT ![p] = handleRootAdded(deal[p], TheRootAdded)]
    /\ UNCHANGED <<dpc, thrown, outcome, dealInput, createCalls, hookCalls, hookRejected,
                   saveCount, saveFailed, lastSave, mon>>
    /\ UNCHANGED <<pipeVars, batchVars, pollVars, verifyVars, parseVars, stepVars>>

\* upload() resolves: the upload result is applied and postProcessDeal is
\* called, which invokes the postProcess hooks of the applied add-ons.
UploadResolves(p) ==
    /\ dpc[p] = "upload"
    /\ deal' = [deal EXCEPT ![p] = updateDealWithUploadResult(deal[p], TheUploadResult)]
    /\ hookCalls' = [hookCalls EXCEPT
                        ![p] = @ + Cardinality(PostProcessHooks(deal[p]))]
    /\ dpc' = [dpc EXCEPT ![p] = "postProcess"]
    /\ UNCHANGED <<cb, thrown, outcome, dealInput, createCalls, hookRejected, saveCount,
                   saveFailed, lastSave, mon>>
    /\ UNCHANGED <<pipeVars, batchVars, pollVars, verifyVars, parseVars, stepVars>>

\* upload() rejects, before or after its callbacks fired.
UploadRejects(p) ==
    /\ dpc[p] = "upload"
    /\ Throw(p, UploadError)
    /\ UNCHANGED <<cb, outcome, dealInput, createCalls, hookCalls, hookRejected, saveFailed, mon>>
    /\ UNCHANGED <<pipeVars, batchVars, pollVars, verifyVars, parseVars, stepVars>>

\* A postProcessDeal without its try / catch: the error of a handler is
\* thrown into createDeal
PostProcessRethrows(hookError) == hookError

\* What postProcessDeal throws into createDeal when Promise.all settled with
\* hookError (NULL: every handler resolved): its catch logs the error of a
\* handler and does not rethrow it.
PostProcessThrows(hookError) == NULL

\* postProcessDeal settles, after every postProcess handler resolved or one
\* of them rejected; createDeal returns the deal and its finally block calls
\* saveDeal.
PostProcessSettles(p) ==
    /\ dpc[p] = "postProcess"
    /\ \E rejects \in {r \in BOOLEAN : r => PostProcessHooks(deal[p]) # {}} :
       LET error == PostProcessThrows(IF rejects THEN HookError ELSE NULL)
       IN  /\ NoteHooks(p, "postProcess", rejects)
           /\ IF error = NULL
              THEN /\ IssueSave(p, deal[p])
                   /\ dpc' = [dpc EXCEPT ![p] = "saving"]
                   /\ UNCHANGED <<deal, thrown>>
              ELSE Throw(p, error)
    /\ UNCHANGED <<cb, outcome, dealInput, createCalls, hookCalls, saveFailed, mon>>
    /\ UNCHANGED <<pipeVars, batchVars, pollVars, verifyVars, parseVars, stepVars>>

\* A saveDeal without its try / catch: the error of the save replaces whatever
\* createDeal was about to return or rethrow
SettleAfterUncaughtSave(completion, saveError) ==
    IF saveError # NULL
    THEN [status |-> "rejected", reason |-> saveError]
    ELSE IF completion = NULL
         THEN [status |-> "fulfilled", reason |-> NULL]
         ELSE [status |-> "rejected", reason |-> completion]

\* How createDeal settles once saveDeal is over. completion is what the try /
\* catch left pending (NULL: return deal; an error: rethrow it); saveDeal
\* catches the error of dealRepository.save, so saveError changes nothing.
SettleAfterSave(completion, saveError) ==
    IF completion = NULL
    THEN [status |-> "fulfilled", reason |-> NULL]
    ELSE [status |-> "rejected", reason |-> completion]

\* dealRepository.save of saveDeal settles, with or without an error, and
\* createDeal settles.
SaveSettles(p) ==
    /\ dpc[p] = "saving"
    /\ \E saveError \in {NULL, SaveError} :
          /\ outcome' = [outcome EXCEPT ![p] = SettleAfterSave(thrown[p], saveError)]
          /\ saveFailed' = [saveFailed EXCEPT ![p] = (saveError # NULL)]
    /\ dpc' = [dpc EXCEPT ![p] = "settled"]
    /\ UNCHANGED <<deal, cb, thrown, dealInput, createCalls, hookCalls, hookRejected, saveCount,
                   lastSave, mon>>
    /\ UNCHANGED <<pipeVars, batchVars, pollVars, verifyVars, parseVars, stepVars>>


\* ------------------------------------------------- verification task

\* The statuses updateDealWithIpniMetrics derives from what was observed
IpniOutcomes == {VERIFIED, SP_RECEIVED_RETRIEVE_REQUEST, SP_ADVERTISED, SP_INDEXED,
                 IPNI_FAILED}

\* startIpniMonitoring: monitorAndVerifyIPNI returned; updateDealWithIpniMetrics
\* derives the verification status and saves the deal.
MonitorFinishes(p) ==
    /\ mon[p] = "running"
    /\ \E st \in IpniOutcomes :
          /\ deal' = [deal EXCEPT ![p].ipniStatus = st]
          /\ IssueSave(p, [deal[p] EXCEPT !.ipniStatus = st])
    /\ mon' = [mon EXCEPT ![p] = "saving"]
    /\ UNCHANGED <<dpc, cb, thrown, outcome, dealInput, createCalls, hookCalls, hookRejected,
                   saveFailed>>
    /\ UNCHANGED <<pipeVars, batchVars, pollVars, verifyVars, parseVars, stepVars>>

MarkDealFailed(d) == [d EXCEPT !.ipniStatus = IPNI_FAILED, !.status = FAILED]

\* deal.ipniStatus = IpniStatus.FAILED
MarkIpniFailed(d) == [d EXCEPT !.ipniStatus = IPNI_FAILED]

\* The catch block of startIpniMonitoring: mark the verification FAILED and
\* save the deal.
MonitorCatch(p) ==
    /\ deal' = [deal EXCEPT ![p] = MarkIpniFailed(deal[p])]
    /\ IssueSave(p, MarkIpniFailed(deal[p]))
    /\ mon' = [mon EXCEPT ![p] = "failSaving"]

\* startIpniMonitoring throws before updateDealWithIpniMetrics (the provider's
\* service URL does not convert to a multiaddr).
MonitorThrows(p) ==
    /\ mon[p] = "running"
    /\ MonitorCatch(p)
    /\ UNCHANGED <<dpc, cb, thrown, outcome, dealInput, createCalls, hookCalls, hookRejected,
                   saveFailed>>
    /\ UNCHANGED <<pipeVars, batchVars, pollVars, verifyVars, parseVars, stepVars>>

\* The save of updateDealWithIpniMetrics settles; its error is rethrown into
\* the catch block of startIpniMonitoring.
MonitorSaveSettles(p) ==
    /\ mon[p] = "saving"
    /\ \/ /\ mon' = [mon EXCEPT ![p] = "done"]
          /\ UNCHANGED <<deal, saveCount, lastSave>>
       \/ MonitorCatch(p)
    /\ UNCHANGED <<dpc, cb, thrown, outcome, dealInput, createCalls, hookCalls, hookRejected,
                   saveFailed>>
    /\ UNCHANGED <<pipeVars, batchVars, pollVars, verifyVars, parseVars, stepVars>>

\* The save of the catch block settles; the task ends either way.
MonitorFailSaveSettles(p) ==
    /\ mon[p] = "failSaving"
    /\ mon' = [mon EXCEPT ![p] = "done"]
    /\ UNCHANGED <<deal, dpc, cb, thrown, outcome, dealInput, createCalls, hookCalls, hookRejected,
                   saveCount, saveFailed, lastSave>>
    /\ UNCHANGED <<pipeVars, batchVars, pollVars, verifyVars, parseVars, stepVars>>

\* ------------------------------------------------------------ batch fan-out

\* SIZE_CONSTANTS.MIN_UPLOAD_SIZE and MAX_UPLOAD_SIZE of the SDK
MIN_UPLOAD_SIZE == "MIN_UPLOAD_SIZE"
MAX_UPLOAD_SIZE == "MAX_UPLOAD_SIZE"

\* this.dataSourceService.fetchKaggleDataset(minSize, maxSize), as called
fetchKaggleDataset(minSize, maxSize) ==
    [source |-> "kaggle", minSize |-> minSize, maxSize |-> maxSize]

\* A fallback called with its size bounds in the wrong order
fetchLocalDatasetSwapped(minSize, maxSize) ==
    [source |-> "local", minSize |-> maxSize, maxSize |-> minSize]

\* this.dataSourceService.fetchLocalDataset(minSize, maxSize), as called
fetchLocalDataset(minSize, maxSize) ==
    [source |-> "local", minSize |-> minSize, maxSize |-> maxSize]

\* The payload a dataset source resolves with
PayloadOf(call) == <<call.source>>

\* createDealsForAllProviders calls fetchDataFile(MIN_UPLOAD_SIZE,
\* MAX_UPLOAD_SIZE): fetchKaggleDataset is called and settles. Its payload is
\* returned and preprocessDeal is called, or the catch calls fetchLocalDataset
\* with the same bounds.
FetchDataFile ==
    /\ bpc = "start"
    /\ LET primary == fetchKaggleDataset(MIN_UPLOAD_SIZE, MAX_UPLOAD_SIZE)
           fallback == fetchLocalDataset(MIN_UPLOAD_SIZE, MAX_UPLOAD_SIZE)
       IN  \/ /\ fetchCalls' = <<primary>>
              /\ dataFile' = PayloadOf(primary)
              /\ bpc' = "preprocess"
              /\ UNCHANGED fetchFailures
           \/ /\ fetchCalls' = <<primary, fallback>>
              /\ fetchFailures' = fetchFailures \cup {primary.source}
              /\ bpc' = "fallback"
              /\ UNCHANGED dataFile
    /\ UNCHANGED <<providers, spRecords, maxConcurrency, i, results, groups, returned,
                   batchError>>
    /\ UNCHANGED <<pipeVars, dealVars, pollVars, verifyVars, parseVars, stepVars>>

\* fetchLocalDataset settles: its payload is returned and preprocessDeal is
\* called, or its error rejects fetchDataFile and createDealsForAllProviders.
FallbackSettles ==
    /\ bpc = "fallback"
    /\ \/ /\ dataFile' = PayloadOf(fetchCalls[Len(fetchCalls)])
          /\ bpc' = "preprocess"
          /\ UNCHANGED <<fetchFailures, batchError>>
       \/ /\ fetchFailures' = fetchFailures \cup {fetchCalls[Len(fetchCalls)].source}
          /\ bpc' = "raised"
          /\ batchError' = "Dataset fetch failed"
          /\ UNCHANGED dataFile
    /\ UNCHANGED <<providers, spRecords, maxConcurrency, fetchCalls, i, results, groups,
                   returned>>
    /\ UNCHANGED <<pipeVars, dealVars, pollVars, verifyVars, parseVars, stepVars>>

\* A batch that enters processProvidersInParallel whatever preprocessDeal
\* settled with
PreprocessFailureSkipped ==
    /\ bpc = "preprocess"
    /\ ppc \in {"done", "failed"}
    /\ bpc' = "loop"
    /\ UNCHANGED batchError
    /\ UNCHANGED <<providers, spRecords, maxConcurrency, dataFile, fetchCalls, fetchFailures, i, results, groups, returned>>
    /\ UNCHANGED <<pipeVars, dealVars, pollVars, verifyVars, parseVars, stepVars>>

\* preprocessDeal settled: its rejection rejects createDealsForAllProviders,
\* otherwise processProvidersInParallel is entered.
PreprocessSettles ==
    /\ bpc = "preprocess"
    /\ \/ /\ ppc = "done"
          /\ bpc' = "loop"
          /\ UNCHANGED batchError
       \/ /\ ppc = "failed"
          /\ bpc' = "raised"
          /\ batchError' = pipelineError
    /\ UNCHANGED <<providers, spRecords, maxConcurrency, dataFile, fetchCalls, fetchFailures, i, results, groups, returned>>
    /\ UNCHANGED <<pipeVars, dealVars, pollVars, verifyVars, parseVars, stepVars>>

\* A slice whose end index is inclusive: one provider too many per group
SliceInclusive(list, from, size) ==
    [k \in 1..(Min(from + size + 1, Len(list)) - from) |-> list[from + k]]

\* providers.slice(i, i + maxConcurrency), as the 1-based indices of the slice
Slice(list, from, size) == [k \in 1..(Min(from + size, Len(list)) - from) |-> list[from + k]]

\* One iteration of the loop of processProvidersInParallel up to its await:
\* slice the batch and call createDeal for each of its providers. Each
\* createDeal runs to its first await: the Deal is created PENDING and the
\* provider record is looked up.
StartGroup ==
    /\ bpc = "loop"
    /\ i < Len(providers)
    /\ LET batch == Slice(providers, i, maxConcurrency)
       IN  /\ groups' = Append(groups, batch)
           /\ deal' = [p \in Providers |->
                          IF p \in Range(batch) THEN NewDeal(p, preprocessed) ELSE deal[p]]
           /\ dpc' = [p \in Providers |->
                          IF p \in Range(batch) THEN "findOne" ELSE dpc[p]]
           /\ dealInput' = [p \in Providers |->
                          IF p \in Range(batch) THEN preprocessed ELSE dealInput[p]]
           /\ createCalls' = [p \in Providers |->
                          IF p \in Range(batch) THEN createCalls[p] + 1 ELSE createCalls[p]]
    /\ bpc' = "await"
    /\ UNCHANGED <<providers, spRecords, maxConcurrency, dataFile, fetchCalls, fetchFailures, i, results, returned, batchError>>
    /\ UNCHANGED <<cb, thrown, outcome, hookCalls, hookRejected, saveCount, saveFailed, lastSave, mon>>
    /\ UNCHANGED <<pipeVars, pollVars, verifyVars, parseVars, stepVars>>

\* Promise.race in place of Promise.allSettled: resolved by the first
\* createDeal of the batch that settles
AnySettled(batch) == \E k \in 1..Len(batch) : dpc[batch[k]] = "settled"

\* Promise.allSettled(batchPromises) resolves when every createDeal of the
\* batch has settled.
AllSettled(batch) == \A k \in 1..Len(batch) : dpc[batch[k]] = "settled"

\* The entry pushed to results for one settled createDeal
ResultOf(p) ==
    IF outcome[p].status = "fulfilled"
    THEN [success |-> TRUE, deal |-> p, error |-> NULL, provider |-> p]
    ELSE [success |-> FALSE, deal |-> NoDeal, error |-> outcome[p].reason, provider |-> p]

\* A loop that advances by one provider instead of one group
NextIndexByOne(index, step) == index + 1

\* i += maxConcurrency
NextIndex(index, step) == index + step

\* The rest of the iteration: the outcomes are pushed in batch order and the
\* loop variable advances.
GroupSettles ==
    /\ bpc = "await"
    /\ LET batch == groups[Len(groups)]
       IN  /\ AllSettled(batch)
           /\ results' = results \o [k \in 1..Len(batch) |-> ResultOf(batch[k])]
    /\ i' = NextIndex(i, maxConcurrency)
    /\ bpc' = "loop"
    /\ UNCHANGED <<providers, spRecords, maxConcurrency, dataFile, fetchCalls, fetchFailures, groups, returned, batchError>>
    /\ UNCHANGED <<pipeVars, dealVars, pollVars, verifyVars, parseVars, stepVars>>

\* results.map((result) => result.deal) without the filter
RECURSIVE successfulDealsUnfiltered(_)
successfulDealsUnfiltered(rs) ==
    IF rs = <<>> THEN <<>>
    ELSE <<Head(rs).deal>> \o successfulDealsUnfiltered(Tail(rs))

\* results.filter((result) => result.success).map((result) => result.deal)
RECURSIVE successfulDeals(_)
successfulDeals(rs) ==
    IF rs = <<>> THEN <<>>
    ELSE (IF Head(rs).success THEN <<Head(rs).deal>> ELSE <<>>) \o successfulDeals(Tail(rs))

\* The loop is over: createDealsForAllProviders returns the successful deals.
FinishBatch ==
    /\ bpc = "loop"
    /\ i >= Len(providers)
    /\ returned' = successfulDeals(results)
    /\ bpc' = "done"
    /\ UNCHANGED <<providers, spRecords, maxConcurrency, dataFile, fetchCalls, fetchFailures, i, results, groups, batchError>>
    /\ UNCHANGED <<pipeVars, dealVars, pollVars, verifyVars, parseVars, stepVars>>

\* ------------------------------------------------------ monitorPieceStatus

\* Time is counted in ticks; Date.now() is the variable now.
Elapsed == now - startTime

\* A timestamp that is null
NoTime == 0 - 1

\* let lastStatus, before the first poll
InitialStatus ==
    [indexed |-> FALSE, advertised |-> FALSE, retrieved |-> FALSE,
     retrievedAt |-> NoTime, indexedAt |-> NoTime, advertisedAt |-> NoTime]

\* What pdpServer.getPieceStatus can resolve with when it resolves at t: the
\* three flags and the retrieval timestamp are separate fields of the response.
SdkStatuses(t) ==
    [indexed : BOOLEAN, advertised : BOOLEAN, retrieved : BOOLEAN,
     retrievedAt : {NoTime, t}]

\* if (current.flag && !last.flag) current.flagAt = new Date().toISOString()
StampedAt(flag, lastFlag, carried, t) ==
    IF flag /\ ~lastFlag THEN t ELSE carried

\* const currentStatus of one poll settled at t
CurrentStatus(sdkStatus, last, t) ==
    [indexed |-> sdkStatus.indexed,
     advertised |-> sdkStatus.advertised,
     retrieved |-> sdkStatus.retrieved,
     retrievedAt |-> sdkStatus.retrievedAt,
     indexedAt |-> StampedAt(sdkStatus.indexed, last.indexed, last.indexedAt, t),
     advertisedAt |-> StampedAt(sdkStatus.advertised, last.advertised, last.advertisedAt, t)]

\* if (currentStatus.retrievedAt && !lastStatus.retrievedAt)
RetrievalSeen(current, last) ==
    current.retrievedAt # NoTime /\ ~(last.retrievedAt # NoTime)

\* The first-observation times as they stand after a poll answered at t
Observed(seen, sdkStatus, t) ==
    [indexed |-> IF sdkStatus.indexed /\ seen.indexed = NoTime THEN t ELSE seen.indexed,
     advertised |-> IF sdkStatus.advertised /\ seen.advertised = NoTime
                    THEN t ELSE seen.advertised]

\* while (Date.now() - startTime < maxDurationMs) { checkCount++;
\*   ... await pdpServer.getPieceStatus(pieceCid)
IssueQuery ==
    /\ mpc = "while"
    /\ Elapsed < maxDurationMs
    /\ checkCount' = checkCount + 1
    /\ queryAt' = now
    /\ mpc' = "query"
    /\ UNCHANGED <<now, startTime, maxDurationMs, pollIntervalMs, lastStatus,
                   monitoringResult, firstSeen, sawRetrieved, resolved>>
    /\ UNCHANGED <<pipeVars, batchVars, dealVars, verifyVars, parseVars, stepVars>>

PollingNeverTimesOut ==
    /\ mpc = "while"
    /\ ~(Elapsed < maxDurationMs)
    /\ UNCHANGED vars

\* The loop condition is false: throw new Error("Timeout waiting for ...")
PollingTimesOut ==
    /\ mpc = "while"
    /\ ~(Elapsed < maxDurationMs)
    /\ mpc' = "thrown"
    /\ UNCHANGED <<now, startTime, maxDurationMs, pollIntervalMs, lastStatus, checkCount,
                   monitoringResult, queryAt, firstSeen, sawRetrieved, resolved>>
    /\ UNCHANGED <<pipeVars, batchVars, dealVars, verifyVars, parseVars, stepVars>>

\* getPieceStatus resolves: the rest of the try block
QueryResolves ==
    /\ mpc = "query"
    /\ \E latency \in 0..MaxLatency :
       \E sdkStatus \in SdkStatuses(now + latency) :
          LET t == now + latency
              currentStatus == CurrentStatus(sdkStatus, lastStatus, t)
          IN  /\ now' = t
              /\ firstSeen' = Observed(firstSeen, sdkStatus, t)
              /\ sawRetrieved' = (sawRetrieved \/ sdkStatus.retrieved)
              /\ resolved' = resolved + 1
              /\ IF RetrievalSeen(currentStatus, lastStatus)
                 THEN /\ monitoringResult' = [success |-> TRUE,
                                              finalStatus |-> currentStatus,
                                              checks |-> checkCount,
                                              durationMs |-> t - startTime]
                      /\ mpc' = "returned"
                      /\ UNCHANGED lastStatus
                 ELSE /\ lastStatus' = currentStatus
                      /\ mpc' = "sleep"
                      /\ UNCHANGED monitoringResult
    /\ UNCHANGED <<startTime, maxDurationMs, pollIntervalMs, checkCount, queryAt>>
    /\ UNCHANGED <<pipeVars, batchVars, dealVars, verifyVars, parseVars, stepVars>>

\* getPieceStatus rejects: the catch block only logs
QueryRejects ==
    /\ mpc = "query"
    /\ \E latency \in 0..MaxLatency : now' = now + latency
    /\ mpc' = "sleep"
    /\ UNCHANGED <<startTime, maxDurationMs, pollIntervalMs, lastStatus, checkCount,
                   monitoringResult, queryAt, firstSeen, sawRetrieved, resolved>>
    /\ UNCHANGED <<pipeVars, batchVars, dealVars, verifyVars, parseVars, stepVars>>

\* await new Promise((resolve) => setTimeout(resolve, pollIntervalMs)): the
\* timer fires no earlier than its delay.
TimerFires ==
    /\ mpc = "sleep"
    /\ \E late \in 0..MaxLatency : now' = now + pollIntervalMs + late
    /\ mpc' = "while"
    /\ UNCHANGED <<startTime, maxDurationMs, pollIntervalMs, lastStatus, checkCount,
                   monitoringResult, queryAt, firstSeen, sawRetrieved, resolved>>
    /\ UNCHANGED <<pipeVars, batchVars, dealVars, verifyVars, parseVars, stepVars>>

\* No monitorPieceStatus call is in progress
NotPolling ==
    /\ mpc = "idle"
    /\ now = 0
    /\ startTime = 0
    /\ maxDurationMs = 0
    /\ pollIntervalMs = 0
    /\ lastStatus = InitialStatus
    /\ checkCount = 0
    /\ monitoringResult = NoRecord
    /\ queryAt = NoTime
    /\ firstSeen = [indexed |-> NoTime, advertised |-> NoTime]
    /\ sawRetrieved = FALSE
    /\ resolved = 0

\* ---------------------------------------------------- monitorAndVerifyIPNI

\* A metric or a count that is null
NoMetric == 0 - 1

\* The root identifier among the identifiers looked up; the block identifiers
\* are 1..Len(blockCIDs).
RootCID == 0

\* The provider addresses of the model
ExpectedMultiaddr == "/dns/sp/tcp/443/https"
OtherMultiaddr == "/dns/other/tcp/443/https"

\* What queryIPNI can settle with: a rejection, or the provider address list
\* extracted from the response of the index.
QueryFailed == [rejected |-> TRUE]
LookupAnswers ==
    {QueryFailed} \cup
    {[rejected |-> FALSE, addrs |-> a] :
        a \in {<<>>, <<OtherMultiaddr>>, <<ExpectedMultiaddr>>,
               <<OtherMultiaddr, ExpectedMultiaddr>>}}

\* The index answered with an address list that holds the expected address
Hit(answer, expectedMultiaddr) ==
    ~answer.rejected /\ \E k \in 1..Len(answer.addrs) : answer.addrs[k] = expectedMultiaddr

verifySingleCIDAnyAddress(answer, expectedMultiaddr) ==
    IF answer.rejected THEN [verified |-> FALSE, reason |-> "error"]
    ELSE IF Len(answer.addrs) = 0 THEN [verified |-> FALSE, reason |-> "not found"]
    ELSE [verified |-> TRUE, reason |-> NULL]

\* verifySingleCID
verifySingleCID(answer, expectedMultiaddr) ==
    IF answer.rejected THEN [verified |-> FALSE, reason |-> "error"]
    ELSE IF Len(answer.addrs) = 0 THEN [verified |-> FALSE, reason |-> "not found"]
    ELSE IF expectedMultiaddr \notin Range(answer.addrs)
         THEN [verified |-> FALSE, reason |-> "wrong multiaddr"]
    ELSE [verified |-> TRUE, reason |-> NULL]

\* The catch of monitorAndVerifyIPNI: the monitoring result put in place of a
\* monitorPieceStatus that threw
TimedOutResult(statusTimeoutMs) ==
    [success |-> FALSE,
     finalStatus |-> [indexed |-> FALSE, advertised |-> FALSE, retrieved |-> FALSE,
                      retrievedAt |-> NoTime, indexedAt |-> NoTime,
                      advertisedAt |-> NoTime],
     checks |-> 0,
     durationMs |-> statusTimeoutMs]

SettleNever(result) == FALSE

\* if (monitoringResult.finalStatus.retrieved): the settle wait is due
SettleDue(result) == result.finalStatus.retrieved

\* The IPNI columns of a Deal whose verification has just been set PENDING
TrackedDeal(uploadEnd) ==
    [status |-> UPLOADED,
     uploadEndTime |-> uploadEnd,
     ipniStatus |-> IPNI_PENDING,
     ipniIndexedAt |-> NoTime, ipniTimeToIndexMs |-> NoMetric,
     ipniAdvertisedAt |-> NoTime, ipniTimeToAdvertiseMs |-> NoMetric,
     ipniRetrievedAt |-> NoTime, ipniTimeToRetrieveMs |-> NoMetric,
     ipniVerifiedAt |-> NoTime, ipniTimeToVerifyMs |-> NoMetric,
     ipniVerifiedCidsCount |-> NoMetric, ipniUnverifiedCidsCount |-> NoMetric]

IpniResultBlocksOnly(rootResult, blocksVerified, failed, nBlocks, start, t) ==
    [verified |-> blocksVerified,
     unverified |-> nBlocks + 1 - blocksVerified,
     total |-> nBlocks + 1,
     rootCIDVerified |-> rootResult.verified,
     durationMs |-> t - start,
     failedCIDs |-> failed,
     verifiedAt |-> t]

\* A result that counts as unverified only the identifiers looked up in vain
IpniResultOfLookups(rootResult, blocksVerified, failed, nBlocks, start, t) ==
    [verified |-> (IF rootResult.verified THEN 1 ELSE 0) + blocksVerified,
     unverified |-> Len(failed),
     total |-> nBlocks + 1,
     rootCIDVerified |-> rootResult.verified,
     durationMs |-> t - start,
     failedCIDs |-> failed,
     verifiedAt |-> t]

\* The return value of verifyIPNIAdvertisement, composed at t
IpniResult(rootResult, blocksVerified, failed, nBlocks, start, t) ==
    LET successCount == (IF rootResult.verified THEN 1 ELSE 0) + blocksVerified
        totalCIDs == nBlocks + 1
    IN  [verified |-> successCount,
         unverified |-> totalCIDs - successCount,
         total |-> totalCIDs,
         rootCIDVerified |-> rootResult.verified,
         durationMs |-> t - start,
         failedCIDs |-> failed,
         verifiedAt |-> t]

DerivedAlwaysFailed(finalStatus, result) == IPNI_FAILED

\* updateDealWithIpniMetrics: the status derived from the result
DerivedStatus(finalStatus, result) ==
    IF result.rootCIDVerified THEN VERIFIED
    ELSE IF finalStatus.retrieved THEN SP_RECEIVED_RETRIEVE_REQUEST
    ELSE IF finalStatus.advertised THEN SP_ADVERTISED
    ELSE IF finalStatus.indexed THEN SP_INDEXED
    ELSE IPNI_FAILED

TimeSinceEpoch(timestamp, uploadEnd) == timestamp

\* timestamp.getTime() - uploadEndTime.getTime()
TimeToStage(timestamp, uploadEnd) == timestamp - uploadEnd

\* finalStatus.flagAt ? new Date(finalStatus.flagAt) : now
StageTimestamp(flagAt, t) == IF flagAt # NoTime THEN flagAt ELSE t

\* updateDealWithIpniMetrics up to its save, run at t
updateDealWithIpniMetrics(d, monitoring, result, t) ==
    LET finalStatus == monitoring.finalStatus
        uploadEndTime == IF d.uploadEndTime # NoTime THEN d.uploadEndTime ELSE t
        setIndexed == finalStatus.indexed /\ d.ipniIndexedAt = NoTime
        setAdvertised == finalStatus.advertised /\ d.ipniAdvertisedAt = NoTime
        setRetrieved == finalStatus.retrievedAt # NoTime /\ d.ipniRetrievedAt = NoTime
        setVerified == result.rootCIDVerified /\ d.ipniVerifiedAt = NoTime
        indexedTimestamp == StageTimestamp(finalStatus.indexedAt, t)
        advertisedTimestamp == StageTimestamp(finalStatus.advertisedAt, t)
    IN  [d EXCEPT
           !.ipniStatus = DerivedStatus(finalStatus, result),
           !.ipniIndexedAt = IF setIndexed THEN indexedTimestamp ELSE @,
           !.ipniTimeToIndexMs =
               IF setIndexed THEN TimeToStage(indexedTimestamp, uploadEndTime) ELSE @,
           !.ipniAdvertisedAt = IF setAdvertised THEN advertisedTimestamp ELSE @,
           !.ipniTimeToAdvertiseMs =
               IF setAdvertised THEN TimeToStage(advertisedTimestamp, uploadEndTime) ELSE @,
           !.ipniRetrievedAt = IF setRetrieved THEN finalStatus.retrievedAt ELSE @,
           !.ipniTimeToRetrieveMs =
               IF setRetrieved THEN TimeToStage(finalStatus.retrievedAt, uploadEndTime)
               ELSE @,
           !.ipniVerifiedAt = IF setVerified THEN result.verifiedAt ELSE @,
           !.ipniTimeToVerifyMs =
               IF setVerified THEN TimeToStage(result.verifiedAt, uploadEndTime) ELSE @,
           !.ipniVerifiedCidsCount = result.verified,
           !.ipniUnverifiedCidsCount = result.unverified]

\* Date.now() - startTime of verifyIPNIAdvertisement
VerifyElapsed == now - verifyStart

PhaseNeverTimesOut == FALSE

\* if (elapsed > maxDurationMs)
PhaseTimedOut == VerifyElapsed > ipniTimeoutMs

\* this.dealRepository.save(deal) of the task
TrackedSave(d) ==
    /\ trackedSaves' = trackedSaves + 1
    /\ trackedSaved' = d

\* verifyIPNIAdvertisement returns at the current time, monitorAndVerifyIPNI
\* returns, and updateDealWithIpniMetrics runs up to its save.
FinishVerification(rootResult, blocksVerified, failed) ==
    LET result == IpniResult(rootResult, blocksVerified, failed, Len(blockCIDs),
                             verifyStart, now')
        d == updateDealWithIpniMetrics(tracked, monitoringResult, result, now')
    IN  /\ rootCIDResult' = rootResult
        /\ blockCIDsVerified' = blocksVerified
        /\ failedCIDs' = failed
        /\ ipniResult' = result
        /\ tracked' = d
        /\ TrackedSave(d)
        /\ vpc' = "saving"

\* const startTime = Date.now() of verifyIPNIAdvertisement, then verifyRootCID
BeginVerification ==
    /\ verifyStart' = now'
    /\ vpc' = "verifyRoot"

\* monitorPieceStatus has settled: the catch replaces a timeout by the default
\* result, and the settle wait is started when the result says retrieved.
PollingEnds ==
    /\ vpc = "poll"
    /\ mpc \in {"returned", "thrown"}
    /\ monitoringResult' = IF mpc = "thrown" THEN TimedOutResult(maxDurationMs)
                           ELSE monitoringResult
    /\ pollEndedAt' = now
    /\ UNCHANGED now
    /\ IF SettleDue(monitoringResult')
       THEN vpc' = "settle" /\ UNCHANGED verifyStart
       ELSE BeginVerification
    /\ UNCHANGED <<mpc, startTime, maxDurationMs, pollIntervalMs, lastStatus, checkCount,
                   queryAt, firstSeen, sawRetrieved, resolved>>
    /\ UNCHANGED <<tracked, ipniTimeoutMs, blockCIDs, retry, rootCIDResult, blockIdx,
                   blockCIDsVerified, failedCIDs, ipniResult, lookupAt, firstLookupAt,
                   lookupCount, trackedSaves, trackedSaved>>
    /\ UNCHANGED <<pipeVars, batchVars, dealVars, parseVars, stepVars>>
    /\ UNCHANGED lookupHit

\* await setTimeout(IPNI_VERIFICATION_DELAY_MS), then verifyIPNIAdvertisement
SettleElapses ==
    /\ vpc = "settle"
    /\ \E late \in 0..MaxLatency : now' = now + SettleDelay + late
    /\ BeginVerification
    /\ UNCHANGED <<mpc, startTime, maxDurationMs, pollIntervalMs, lastStatus, checkCount,
                   monitoringResult, queryAt, firstSeen, sawRetrieved, resolved>>
    /\ UNCHANGED <<tracked, ipniTimeoutMs, blockCIDs, retry, rootCIDResult, blockIdx,
                   blockCIDsVerified, failedCIDs, ipniResult, pollEndedAt, lookupAt,
                   firstLookupAt, lookupCount, trackedSaves, trackedSaved>>
    /\ UNCHANGED <<pipeVars, batchVars, dealVars, parseVars, stepVars>>
    /\ UNCHANGED lookupHit

\* queryIPNI is called for cid
IssueLookup(cid) ==
    /\ lookupCount' = [lookupCount EXCEPT ![cid] = @ + 1]
    /\ lookupAt' = now
    /\ firstLookupAt' = IF firstLookupAt = NoTime THEN now ELSE firstLookupAt

\* The head of verifyRootCID's loop: give up on a phase timeout, else look up
VerifyRootStep ==
    /\ vpc = "verifyRoot"
    /\ retry < maxRetries
    /\ UNCHANGED now
    /\ IF PhaseTimedOut
       THEN /\ FinishVerification([verified |-> FALSE, reason |-> "timeout"], 0,
                                  <<[cid |-> RootCID, reason |-> "timeout"]>>)
            /\ UNCHANGED <<lookupAt, firstLookupAt, lookupCount>>
       ELSE /\ IssueLookup(RootCID)
            /\ vpc' = "rootLookup"
            /\ UNCHANGED <<tracked, rootCIDResult, blockCIDsVerified, failedCIDs,
                           ipniResult, trackedSaves, trackedSaved>>
    /\ UNCHANGED <<ipniTimeoutMs, blockCIDs, retry, blockIdx, verifyStart, pollEndedAt>>
    /\ UNCHANGED pollVarsButNow
    /\ UNCHANGED <<pipeVars, batchVars, dealVars, parseVars, stepVars>>
    /\ UNCHANGED lookupHit

\* verifySingleCID(rootCID) settles
RootLookupSettles ==
    /\ vpc = "rootLookup"
    /\ \E latency \in 0..MaxLatency, answer \in LookupAnswers :
          LET result == verifySingleCID(answer, ExpectedMultiaddr)
          IN  /\ now' = now + latency
              /\ lookupHit' = IF Hit(answer, ExpectedMultiaddr)
                              THEN lookupHit \cup {RootCID} ELSE lookupHit
              /\ IF result.verified
                 THEN /\ rootCIDResult' = [verified |-> TRUE, reason |-> NULL]
                      /\ vpc' = "verifyBlocks"
                      /\ UNCHANGED <<tracked, blockCIDsVerified, failedCIDs, ipniResult,
                                     trackedSaves, trackedSaved>>
                 ELSE IF retry < maxRetries - 1
                 THEN /\ vpc' = "rootRetryWait"
                      /\ UNCHANGED <<tracked, rootCIDResult, blockCIDsVerified, failedCIDs,
                                     ipniResult, trackedSaves, trackedSaved>>
                 ELSE FinishVerification(
                          [verified |-> FALSE, reason |-> result.reason], 0,
                          <<[cid |-> RootCID, reason |-> result.reason]>>)
    /\ UNCHANGED <<ipniTimeoutMs, blockCIDs, retry, blockIdx, verifyStart, pollEndedAt,
                   lookupAt, firstLookupAt, lookupCount>>
    /\ UNCHANGED pollVarsButNow
    /\ UNCHANGED <<pipeVars, batchVars, dealVars, parseVars, stepVars>>

\* await setTimeout(IPNI_VERIFICATION_RETRY_INTERVAL_MS); retry++
RetryTimerFires ==
    /\ vpc = "rootRetryWait"
    /\ \E late \in 0..MaxLatency : now' = now + RetryInterval + late
    /\ retry' = retry + 1
    /\ vpc' = "verifyRoot"
    /\ UNCHANGED <<tracked, ipniTimeoutMs, blockCIDs, rootCIDResult, blockIdx,
                   blockCIDsVerified, failedCIDs, ipniResult, verifyStart, pollEndedAt,
                   lookupAt, firstLookupAt, lookupCount, trackedSaves, trackedSaved>>
    /\ UNCHANGED pollVarsButNow
    /\ UNCHANGED <<pipeVars, batchVars, dealVars, parseVars, stepVars>>
    /\ UNCHANGED lookupHit

\* The head of verifyBlockCIDs's loop: leave it when the identifiers are used
\* up or on a phase timeout, else look the next one up
VerifyBlocksStep ==
    /\ vpc = "verifyBlocks"
    /\ UNCHANGED now
    /\ IF blockIdx > Len(blockCIDs) \/ PhaseTimedOut
       THEN /\ FinishVerification(rootCIDResult, blockCIDsVerified, failedCIDs)
            /\ UNCHANGED <<lookupAt, firstLookupAt, lookupCount>>
       ELSE /\ IssueLookup(blockCIDs[blockIdx])
            /\ vpc' = "blockLookup"
            /\ UNCHANGED <<tracked, rootCIDResult, blockCIDsVerified, failedCIDs,
                           ipniResult, trackedSaves, trackedSaved>>
    /\ UNCHANGED <<ipniTimeoutMs, blockCIDs, retry, blockIdx, verifyStart, pollEndedAt>>
    /\ UNCHANGED pollVarsButNow
    /\ UNCHANGED <<pipeVars, batchVars, dealVars, parseVars, stepVars>>
    /\ UNCHANGED lookupHit

\* verifySingleCID(cid) of a block settles
BlockLookupSettles ==
    /\ vpc = "blockLookup"
    /\ \E latency \in 0..MaxLatency, answer \in LookupAnswers :
          LET result == verifySingleCID(answer, ExpectedMultiaddr)
          IN  /\ now' = now + latency
              /\ lookupHit' = IF Hit(answer, ExpectedMultiaddr)
                              THEN lookupHit \cup {blockCIDs[blockIdx]} ELSE lookupHit
              /\ IF result.verified
                 THEN /\ blockCIDsVerified' = blockCIDsVerified + 1
                      /\ UNCHANGED failedCIDs
                 ELSE /\ failedCIDs' = Append(failedCIDs,
                              [cid |-> blockCIDs[blockIdx], reason |-> result.reason])
                      /\ UNCHANGED blockCIDsVerified
    /\ blockIdx' = blockIdx + 1
    /\ vpc' = "verifyBlocks"
    /\ UNCHANGED <<tracked, ipniTimeoutMs, blockCIDs, retry, rootCIDResult, ipniResult,
                   verifyStart, pollEndedAt, lookupAt, firstLookupAt, lookupCount,
                   trackedSaves, trackedSaved>>
    /\ UNCHANGED pollVarsButNow
    /\ UNCHANGED <<pipeVars, batchVars, dealVars, parseVars, stepVars>>

\* The save of updateDealWithIpniMetrics settles. Its error is rethrown into
\* the catch of startIpniMonitoring, which marks the verification FAILED and
\* saves again.
MetricsSaveSettles ==
    /\ vpc = "saving"
    /\ \/ /\ vpc' = "done"
          /\ UNCHANGED <<tracked, trackedSaves, trackedSaved>>
       \/ /\ tracked' = MarkIpniFailed(tracked)
          /\ TrackedSave(MarkIpniFailed(tracked))
          /\ vpc' = "failSaving"
    /\ UNCHANGED <<ipniTimeoutMs, blockCIDs, retry, rootCIDResult, blockIdx,
                   blockCIDsVerified, failedCIDs, ipniResult, verifyStart, pollEndedAt,
                   lookupAt, firstLookupAt, lookupCount>>
    /\ UNCHANGED pollVars
    /\ UNCHANGED <<pipeVars, batchVars, dealVars, parseVars, stepVars>>
    /\ UNCHANGED lookupHit

\* The save of the catch settles; the error is rethrown to onUploadComplete's
\* .catch either way.
FailureSaveSettles ==
    /\ vpc = "failSaving"
    /\ vpc' = "rejected"
    /\ UNCHANGED <<tracked, ipniTimeoutMs, blockCIDs, retry, rootCIDResult, blockIdx,
                   blockCIDsVerified, failedCIDs, ipniResult, verifyStart, pollEndedAt,
                   lookupAt, firstLookupAt, lookupCount, trackedSaves, trackedSaved>>
    /\ UNCHANGED pollVars
    /\ UNCHANGED <<pipeVars, batchVars, dealVars, parseVars, stepVars>>
    /\ UNCHANGED lookupHit

\* No verification task is modelled step by step
NotVerifying ==
    /\ vpc = "idle"
    /\ tracked = NoRecord
    /\ ipniTimeoutMs = 0
    /\ blockCIDs = <<>>
    /\ retry = 0
    /\ rootCIDResult = NoRecord
    /\ blockIdx = 1
    /\ blockCIDsVerified = 0
    /\ failedCIDs = <<>>
    /\ ipniResult = NoRecord
    /\ verifyStart = NoTime
    /\ pollEndedAt = NoTime
    /\ lookupAt = NoTime
    /\ firstLookupAt = NoTime
    /\ lookupCount = [c \in 0..MaxBlocks |-> 0]
    /\ lookupHit = {}
    /\ trackedSaves = 0
    /\ trackedSaved = NoRecord

\* The loop of executePreprocessingPipeline is not followed await by await
NotStepping ==
    /\ pendingResult = NoRecord
    /\ currentSize = 0
    /\ trace = <<>>

\* ------------------------------------------------------------ parseDuration

\* The characters the presets are made of
Alphabet == {" ", "0", "1", "2", "6", "9", ".", "h", "H", "d", "a", "l"}

\* The presets of at most MaxLen characters
Presets == UNION {[1..n -> Alphabet] : n \in 0..MaxLen}

\* \d of the pattern, and the value of a digit
Digits == {"0", "1", "2", "6", "9"}
DigitValue(c) ==
    CASE c = "0" -> 0 [] c = "1" -> 1 [] c = "2" -> 2 [] c = "6" -> 6 [] c = "9" -> 9

\* String.prototype.toLowerCase
toLowerCase(s) == [k \in 1..Len(s) |-> IF s[k] = "H" THEN "h" ELSE s[k]]

\* String.prototype.trim
RECURSIVE trimStart(_)
trimStart(s) == IF s # <<>> /\ Head(s) = " " THEN trimStart(Tail(s)) ELSE s

RECURSIVE trimEnd(_)
trimEnd(s) ==
    IF s # <<>> /\ s[Len(s)] = " " THEN trimEnd(SubSeq(s, 1, Len(s) - 1)) ELSE s

trim(s) == trimEnd(trimStart(s))

\* \d+ matched from position k on: the position after the run of digits
RECURSIVE DigitsEnd(_, _)
DigitsEnd(s, k) ==
    IF k <= Len(s) /\ s[k] \in Digits THEN DigitsEnd(s, k + 1) ELSE k

\* normalized.match(/^(\d+(?:\.\d+)?)(h|d)$/): the two groups, or NoRecord
\* for null
Match(s) ==
    LET intEnd == DigitsEnd(s, 1)
        fracEnd == IF intEnd <= Len(s) /\ s[intEnd] = "."
                   THEN DigitsEnd(s, intEnd + 1) ELSE intEnd
        numEnd == IF fracEnd > intEnd + 1 THEN fracEnd ELSE intEnd
    IN  IF intEnd > 1 /\ numEnd = Len(s) /\ s[numEnd] \in {"h", "d"}
        THEN [valueStr |-> SubSeq(s, 1, numEnd - 1), unit |-> s[numEnd]]
        ELSE NoRecord

\* The digits of a decimal numeral read as one integer, the point skipped
RECURSIVE DigitsNumber(_, _)
DigitsNumber(s, acc) ==
    IF s = <<>> THEN acc
    ELSE IF Head(s) = "." THEN DigitsNumber(Tail(s), acc)
    ELSE DigitsNumber(Tail(s), acc * 10 + DigitValue(Head(s)))

RECURSIVE Pow10(_)
Pow10(n) == IF n = 0 THEN 1 ELSE 10 * Pow10(n - 1)

\* Number.parseFloat(valueStr) of a numeral the pattern matched, as the
\* fraction num / den with den a power of ten
parseFloat(valueStr) ==
    LET point == {k \in 1..Len(valueStr) : valueStr[k] = "."}
        decimals == IF point = {} THEN 0 ELSE Len(valueStr) - (CHOOSE k \in point : TRUE)
    IN  [num |-> DigitsNumber(valueStr, 0), den |-> Pow10(decimals)]

\* hours = value, or value * 24 for days
HoursOf(value, unit) ==
    IF unit = "h" THEN value ELSE [num |-> value.num * 24, den |-> value.den]

\* const MIN_HOURS, const MAX_HOURS
MIN_HOURS == 1
MAX_HOURS == 90 * 24

\* if (hours < MIN_HOURS)
TooShort(hours) == hours.num < MIN_HOURS * hours.den

\* An upper bound that shuts out the maximum itself
TooLongFromMaximum(hours) == hours.num >= MAX_HOURS * hours.den

\* if (hours > MAX_HOURS)
TooLong(hours) == hours.num > MAX_HOURS * hours.den

\* throw new Error(message)
Thrown(message) == [error |-> message, result |-> NoRecord]

\* parseDuration: what it throws or returns
parseDuration(p) ==
    LET normalized == toLowerCase(trim(p))
        match == Match(normalized)
    IN  IF normalized = <<"a", "l", "l">>
        THEN Thrown("Use isAllTime flag for \"all\" preset")
        ELSE IF match = NoRecord THEN Thrown("Invalid time window format")
        ELSE LET value == parseFloat(match.valueStr)
                 hours == HoursOf(value, match.unit)
             IN  IF value.num <= 0 THEN Thrown("Invalid duration value")
                 ELSE IF TooShort(hours) THEN Thrown("Duration too short")
                 ELSE IF TooLong(hours) THEN Thrown("Duration too long")
                 ELSE [error |-> NULL,
                       result |-> [value |-> value, unit |-> match.unit, hours |-> hours]]

\* The call of parseDuration runs
ParseDuration ==
    /\ parsePc = "called"
    /\ LET r == parseDuration(preset)
       IN  /\ parsed' = r.result
           /\ parseError' = r.error
           /\ parsePc' = IF r.error = NULL THEN "returned" ELSE "thrown"
    /\ UNCHANGED preset
    /\ UNCHANGED <<pipeVars, batchVars, dealVars, pollVars, verifyVars, stepVars>>

\* No call of parseDuration is modelled
NotParsing ==
    /\ preset = <<>>
    /\ parsePc = "idle"
    /\ parsed = NoRecord
    /\ parseError = NULL

\* ------------------------------------------------------------ specification

\* The group sizes tried: the default and the small ones that split the list
GroupSizes == (1..MaxGroupSize) \cup {DefaultMaxConcurrency}

\* The provider lists of at most n providers
ProviderLists(n) == {[k \in 1..m |-> k] : m \in 0..n}

InitPipeline ==
    /\ ppc = "idle"
    /\ sortedAddons = <<>>
    /\ context = EmptyContext
    /\ appliedAddons = <<>>
    /\ preprocessed = NoRecord
    /\ pipelineError = NULL
    /\ preprocessCalls = 0

InitBatch ==
    /\ bpc = "start"
    /\ dataFile = <<>>
    /\ fetchCalls = <<>>
    /\ fetchFailures = {}
    /\ i = 0
    /\ results = <<>>
    /\ groups = <<>>
    /\ returned = <<>>
    /\ batchError = NULL

InitDeals ==
    /\ deal = [p \in Providers |-> NoRecord]
    /\ dpc = [p \in Providers |-> "new"]
    /\ cb = [p \in Providers |-> 0]
    /\ thrown = [p \in Providers |-> NULL]
    /\ outcome = [p \in Providers |-> [status |-> "pending", reason |-> NULL]]
    /\ dealInput = [p \in Providers |-> NoRecord]
    /\ createCalls = [p \in Providers |-> 0]
    /\ hookCalls = [p \in Providers |-> 0]
    /\ hookRejected = [p \in Providers |-> {}]
    /\ saveCount = [p \in Providers |-> 0]
    /\ saveFailed = [p \in Providers |-> FALSE]
    /\ lastSave = [p \in Providers |-> NoRecord]
    /\ mon = [p \in Providers |-> "none"]

\* After construction: the three strategies are registered and
\* createDealsForAllProviders is about to run. The flags it draws, the provider
\* list and the provider records of the store are whatever they are; the group
\* size is the default.
Init ==
    /\ config \in [enableCDN : BOOLEAN, enableIpni : BOOLEAN]
    /\ addons = registerAddons(directAddon(config), cdnAddon(config), ipniAddon(config))
    /\ providers \in ProviderLists(MaxBatchProviders)
    /\ spRecords \in SUBSET Range(providers)
    /\ maxConcurrency = DefaultMaxConcurrency
    /\ InitPipeline
    /\ InitBatch
    /\ InitDeals
    /\ NotParsing
    /\ NotStepping
    /\ NotPolling
    /\ NotVerifying

Next ==
    \/ FetchDataFile
    \/ FallbackSettles
    \/ PreprocessDeal
    \/ ExecuteAddon
    \/ AddonFails
    \/ FinishPreprocess
    \/ PreprocessSettles
    \/ StartGroup
    \/ GroupSettles
    \/ FinishBatch
    \/ \E p \in Providers :
          \/ FindOneSettles(p)
          \/ CreateStorageSettles(p)
          \/ UploadCompleteFires(p)
          \/ HookSaveSettles(p)
          \/ PieceAddedFires(p)
          \/ UploadResolves(p)
          \/ UploadRejects(p)
          \/ PostProcessSettles(p)
          \/ SaveSettles(p)
          \/ MonitorFinishes(p)
          \/ MonitorThrows(p)
          \/ MonitorSaveSettles(p)
          \/ MonitorFailSaveSettles(p)

Spec == Init /\ [][Next]_vars

\* The same run over registries in which the add-ons registered as direct
\* and as CDN implement any of the optional handlers of IDealAddon, next to
\* IpniAddonStrategy
InitHooks ==
    /\ config \in [enableCDN : BOOLEAN, enableIpni : BOOLEAN]
    /\ \E hd \in SUBSET HookKinds, hc \in SUBSET HookKinds :
          addons = registerAddons(
                       HookedAddon(DIRECT_SP, LOW, DirectIsApplicable(config), hd),
                       HookedAddon(CDN, MEDIUM, CdnIsApplicable(config), hc),
                       ipniAddon(config))
    /\ providers \in ProviderLists(MaxBatchProviders)
    /\ spRecords \in SUBSET Range(providers)
    /\ maxConcurrency = DefaultMaxConcurrency
    /\ InitPipeline
    /\ InitBatch
    /\ InitDeals
    /\ NotParsing
    /\ NotStepping
    /\ NotPolling
    /\ NotVerifying

NextHooks ==
    \/ Next
    \/ \E p \in Providers : DetachedHookSaveSettles(p)

SpecHooks == InitHooks /\ [][NextHooks]_vars

\* processProvidersInParallel over longer provider lists and every group size,
\* in a deployment whose IPNI testing is switched off (enableIpni is drawn
\* false), so that no verification task runs beside the batch.
InitParallel ==
    /\ config \in [enableCDN : BOOLEAN, enableIpni : {FALSE}]
    /\ addons = registerAddons(directAddon(config), cdnAddon(config), ipniAddon(config))
    /\ providers \in ProviderLists(MaxProviders)
    /\ spRecords = Range(providers)
    /\ maxConcurrency \in GroupSizes
    /\ InitPipeline
    /\ InitBatch
    /\ InitDeals
    /\ NotParsing
    /\ NotStepping
    /\ NotPolling
    /\ NotVerifying

NextParallel ==
    \/ FetchDataFile
    \/ FallbackSettles
    \/ PreprocessDeal
    \/ ExecuteAddon
    \/ AddonFails
    \/ FinishPreprocess
    \/ PreprocessSettles
    \/ StartGroup
    \/ GroupSettles
    \/ FinishBatch
    \/ \E p \in Providers :
          \/ FindOneSettles(p)
          \/ CreateStorageSettles(p)
          \/ UploadCompleteFires(p)
          \/ PieceAddedFires(p)
          \/ UploadResolves(p)
          \/ UploadRejects(p)
          \/ PostProcessSettles(p)
          \/ SaveSettles(p)

SpecParallel == InitParallel /\ [][NextParallel]_vars

\* DealAddonsService.preprocessDeal over every registry the constructor can be
\* given: the three injected add-ons with any priorities and any isApplicable
\* answers, registered in the constructor's order.
InitAddons ==
    /\ config \in [enableCDN : BOOLEAN, enableIpni : BOOLEAN]
    /\ \E pd \in AddonPriority, pc \in AddonPriority, pi \in AddonPriority :
       \E ad \in BOOLEAN, ac \in BOOLEAN, ai \in BOOLEAN :
          addons = registerAddons(Addon(DIRECT_SP, pd, ad), Addon(CDN, pc, ac),
                                  Addon(IPFS_PIN, pi, ai))
    /\ providers = <<>>
    /\ spRecords = {}
    /\ maxConcurrency = DefaultMaxConcurrency
    /\ InitPipeline
    /\ bpc = "preprocess"
    /\ dataFile = <<"kaggle">>
    /\ fetchCalls = <<fetchKaggleDataset(MIN_UPLOAD_SIZE, MAX_UPLOAD_SIZE)>>
    /\ fetchFailures = {}
    /\ i = 0
    /\ results = <<>>
    /\ groups = <<>>
    /\ returned = <<>>
    /\ batchError = NULL
    /\ InitDeals
    /\ NotParsing
    /\ NotStepping
    /\ NotPolling
    /\ NotVerifying

NextAddons ==
    \/ PreprocessDeal
    \/ ExecuteAddon
    \/ AddonFails
    \/ FinishPreprocess

SpecAddons == InitAddons /\ [][NextAddons]_vars

\* preprocessDeal has selected and sorted the add-ons of any registry and
\* executePreprocessingPipeline has called preprocessData of the first, for a
\* data file of any size up to MaxSize.
InitSteps ==
    /\ config \in [enableCDN : BOOLEAN, enableIpni : BOOLEAN]
    /\ \E pd \in AddonPriority, pc \in AddonPriority, pi \in AddonPriority :
       \E ad \in BOOLEAN, ac \in BOOLEAN, ai \in BOOLEAN, vd \in BOOLEAN :
          addons = registerAddons(ValidatedAddon(DIRECT_SP, pd, ad, vd),
                                  Addon(CDN, pc, ac), Addon(IPFS_PIN, pi, ai))
    /\ providers = <<>>
    /\ spRecords = {}
    /\ maxConcurrency = DefaultMaxConcurrency
    /\ dataFile = <<"kaggle">>
    /\ ppc = "pipeline"
    /\ sortedAddons = SelectAddons(addons)
    /\ context = NewContext(dataFile)
    /\ appliedAddons = <<>>
    /\ preprocessed = NoRecord
    /\ pipelineError = NULL
    /\ preprocessCalls = 1
    /\ bpc = "preprocess"
    /\ fetchCalls = <<fetchKaggleDataset(MIN_UPLOAD_SIZE, MAX_UPLOAD_SIZE)>>
    /\ fetchFailures = {}
    /\ i = 0
    /\ results = <<>>
    /\ groups = <<>>
    /\ returned = <<>>
    /\ batchError = NULL
    /\ InitDeals
    /\ NotParsing
    /\ NotPolling
    /\ NotVerifying
    /\ pendingResult = NoRecord
    /\ currentSize \in 1..MaxSize
    /\ trace = <<>>

NextSteps ==
    \/ PreprocessDataSettles
    \/ ValidateSettles
    \/ AwaitRejects
    \/ FinishPreprocess

SpecSteps == InitSteps /\ [][NextSteps]_vars

\* monitorPieceStatus has just been called, with any timeout and poll interval:
\* startTime is taken and lastStatus and checkCount are initialised. Nothing
\* else of the service runs.
InitPolling ==
    /\ config = [enableCDN |-> FALSE, enableIpni |-> TRUE]
    /\ addons = registerAddons(directAddon(config), cdnAddon(config), ipniAddon(config))
    /\ providers = <<>>
    /\ spRecords = {}
    /\ maxConcurrency = DefaultMaxConcurrency
    /\ InitPipeline
    /\ InitBatch
    /\ InitDeals
    /\ NotParsing
    /\ NotStepping
    /\ mpc = "while"
    /\ now = 0
    /\ startTime = now
    /\ maxDurationMs \in 1..MaxDuration
    /\ pollIntervalMs \in 1..MaxInterval
    /\ lastStatus = InitialStatus
    /\ checkCount = 0
    /\ monitoringResult = NoRecord
    /\ queryAt = NoTime
    /\ firstSeen = [indexed |-> NoTime, advertised |-> NoTime]
    /\ sawRetrieved = FALSE
    /\ resolved = 0
    /\ NotVerifying

NextPolling ==
    \/ IssueQuery
    \/ PollingTimesOut
    \/ QueryResolves
    \/ QueryRejects
    \/ TimerFires

SpecPolling == InitPolling /\ [][NextPolling]_vars

\* startIpniMonitoring has just called monitorAndVerifyIPNI for a Deal whose
\* upload ended at UploadEnd and whose PENDING status was saved since: the
\* status polling begins. The timeouts and the poll interval are the longest
\* ones and the Deal has a root identifier and one block identifier.
UploadEnd == 1

InitMonitor ==
    /\ config = [enableCDN |-> FALSE, enableIpni |-> TRUE]
    /\ addons = registerAddons(directAddon(config), cdnAddon(config), ipniAddon(config))
    /\ providers = <<>>
    /\ spRecords = {}
    /\ maxConcurrency = DefaultMaxConcurrency
    /\ InitPipeline
    /\ InitBatch
    /\ InitDeals
    /\ NotParsing
    /\ NotStepping
    /\ mpc = "while"
    /\ now = UploadEnd
    /\ startTime = now
    /\ maxDurationMs = MaxDuration
    /\ pollIntervalMs = MaxInterval
    /\ lastStatus = InitialStatus
    /\ checkCount = 0
    /\ monitoringResult = NoRecord
    /\ queryAt = NoTime
    /\ firstSeen = [indexed |-> NoTime, advertised |-> NoTime]
    /\ sawRetrieved = FALSE
    /\ resolved = 0
    /\ vpc = "poll"
    /\ tracked = TrackedDeal(UploadEnd)
    /\ ipniTimeoutMs = MaxPhase
    /\ blockCIDs = <<1>>
    /\ retry = 0
    /\ rootCIDResult = NoRecord
    /\ blockIdx = 1
    /\ blockCIDsVerified = 0
    /\ failedCIDs = <<>>
    /\ ipniResult = NoRecord
    /\ verifyStart = NoTime
    /\ pollEndedAt = NoTime
    /\ lookupAt = NoTime
    /\ firstLookupAt = NoTime
    /\ lookupCount = [c \in 0..MaxBlocks |-> 0]
    /\ lookupHit = {}
    /\ trackedSaves = 0
    /\ trackedSaved = NoRecord

NextMonitor ==
    \/ IssueQuery
    \/ PollingTimesOut
    \/ QueryResolves
    \/ QueryRejects
    \/ TimerFires
    \/ PollingEnds
    \/ SettleElapses
    \/ VerifyRootStep
    \/ RootLookupSettles
    \/ RetryTimerFires
    \/ VerifyBlocksStep
    \/ BlockLookupSettles
    \/ MetricsSaveSettles
    \/ FailureSaveSettles

SpecMonitor == InitMonitor /\ [][NextMonitor]_vars

\* The same task on an event loop that keeps running: a continuation that is
\* ready runs, a timer that is set fires and a request that is pending settles.
SpecMonitorFair == SpecMonitor /\ WF_vars(NextMonitor)

\* The state in which verifyIPNIAdvertisement starts when monitorAndVerifyIPNI
\* was called with a status timeout of 0, so that the status polling threw
\* before its first query
PollingSkipped ==
    /\ mpc = "thrown"
    /\ now = UploadEnd
    /\ startTime = now
    /\ maxDurationMs = 0
    /\ pollIntervalMs = MaxInterval
    /\ lastStatus = InitialStatus
    /\ checkCount = 0
    /\ queryAt = NoTime
    /\ firstSeen = [indexed |-> NoTime, advertised |-> NoTime]
    /\ sawRetrieved = FALSE
    /\ resolved = 0

\* verifyRootCID is about to run its first iteration
VerificationBegins ==
    /\ vpc = "verifyRoot"
    /\ retry = 0
    /\ rootCIDResult = NoRecord
    /\ blockIdx = 1
    /\ blockCIDsVerified = 0
    /\ failedCIDs = <<>>
    /\ ipniResult = NoRecord
    /\ verifyStart = now
    /\ pollEndedAt = now
    /\ lookupAt = NoTime
    /\ firstLookupAt = NoTime
    /\ lookupCount = [c \in 0..MaxBlocks |-> 0]
    /\ lookupHit = {}
    /\ trackedSaves = 0
    /\ trackedSaved = NoRecord

InitService ==
    /\ config = [enableCDN |-> FALSE, enableIpni |-> TRUE]
    /\ addons = registerAddons(directAddon(config), cdnAddon(config), ipniAddon(config))
    /\ providers = <<>>
    /\ spRecords = {}
    /\ maxConcurrency = DefaultMaxConcurrency
    /\ InitPipeline
    /\ InitBatch
    /\ InitDeals

\* verifyIPNIAdvertisement starts, with any phase timeout and any number of
\* block identifiers, for a Deal whose status polling found nothing.
InitVerify ==
    /\ InitService
    /\ NotParsing
    /\ NotStepping
    /\ PollingSkipped
    /\ monitoringResult = TimedOutResult(0)
    /\ tracked = TrackedDeal(UploadEnd)
    /\ ipniTimeoutMs \in 0..MaxPhase
    /\ blockCIDs \in {[k \in 1..n |-> k] : n \in 0..MaxBlocks}
    /\ VerificationBegins

NextVerify ==
    \/ VerifyRootStep
    \/ RootLookupSettles
    \/ RetryTimerFires
    \/ VerifyBlocksStep
    \/ BlockLookupSettles
    \/ MetricsSaveSettles
    \/ FailureSaveSettles

SpecVerify == InitVerify /\ [][NextVerify]_vars

\* parseDuration is called with any preset of at most MaxLen characters
InitParse ==
    /\ InitService
    /\ NotPolling
    /\ NotVerifying
    /\ preset \in Presets
    /\ parsePc = "called"
    /\ parsed = NoRecord
    /\ parseError = NULL
    /\ NotStepping

NextParse == ParseDuration

SpecParse == InitParse /\ [][NextParse]_vars

\* The stages whose timestamp and metric updateDealWithIpniMetrics writes
Stages == {"indexed", "advertised", "retrieved", "verified"}

\* The timestamp and the metric of a stage on a Deal
StageAt(d, stage) ==
    CASE stage = "indexed" -> d.ipniIndexedAt
      [] stage = "advertised" -> d.ipniAdvertisedAt
      [] stage = "retrieved" -> d.ipniRetrievedAt
      [] stage = "verified" -> d.ipniVerifiedAt

StageMetric(d, stage) ==
    CASE stage = "indexed" -> d.ipniTimeToIndexMs
      [] stage = "advertised" -> d.ipniTimeToAdvertiseMs
      [] stage = "retrieved" -> d.ipniTimeToRetrieveMs
      [] stage = "verified" -> d.ipniTimeToVerifyMs

\* A Deal on which the stages of set were written before, at time 0
WithStagesSet(d, set) ==
    [d EXCEPT
       !.ipniIndexedAt = IF "indexed" \in set THEN 0 ELSE @,
       !.ipniTimeToIndexMs = IF "indexed" \in set THEN 0 ELSE @,
       !.ipniAdvertisedAt = IF "advertised" \in set THEN 0 ELSE @,
       !.ipniTimeToAdvertiseMs = IF "advertised" \in set THEN 0 ELSE @,
       !.ipniRetrievedAt = IF "retrieved" \in set THEN 0 ELSE @,
       !.ipniTimeToRetrieveMs = IF "retrieved" \in set THEN 0 ELSE @,
       !.ipniVerifiedAt = IF "verified" \in set THEN 0 ELSE @,
       !.ipniTimeToVerifyMs = IF "verified" \in set THEN 0 ELSE @]

\* The final statuses a PieceMonitoringResult can carry
FinalStatuses ==
    [indexed : BOOLEAN, advertised : BOOLEAN, retrieved : BOOLEAN,
     retrievedAt : {NoTime, UploadEnd}, indexedAt : {NoTime, UploadEnd},
     advertisedAt : {NoTime, UploadEnd}]

\* updateDealWithIpniMetrics over its inputs: the verification of a Deal with
\* any stages written before starts with any monitoring result; the phase
\* timeout is 0 and the Deal has one block identifier.
InitMetrics ==
    /\ InitService
    /\ NotParsing
    /\ NotStepping
    /\ PollingSkipped
    /\ \E fs \in FinalStatuses :
          monitoringResult = [success |-> TRUE, finalStatus |-> fs, checks |-> 1,
                              durationMs |-> 0]
    /\ \E set \in SUBSET Stages : tracked = WithStagesSet(TrackedDeal(UploadEnd), set)
    /\ ipniTimeoutMs = 0
    /\ blockCIDs = <<1>>
    /\ VerificationBegins

SpecMetrics == InitMetrics /\ [][NextVerify]_vars


\* ------------------------------------------------------------ deal lifecycle

\* The position of a status in PENDING -> UPLOADED -> PIECE_ADDED -> DEAL_CREATED
StatusRank(status) ==
    CASE status = PENDING -> 0
      [] status = UPLOADED -> 1
      [] status = PIECE_ADDED -> 2
      [] status = DEAL_CREATED -> 3
      [] status = FAILED -> 4

\* One step of a deal's status: unchanged, forward along the chain, or to FAILED
StatusStep(from, to) ==
    \/ to = from
    \/ to = FAILED
    \/ from # FAILED /\ StatusRank(from) < StatusRank(to)

\* C1: in every step of the program (createDeal, the upload callbacks, the
\* add-on hooks and the verification task) the status of every existing deal
\* stays, moves forward along PENDING -> UPLOADED -> PIECE_ADDED ->
\* DEAL_CREATED, or becomes FAILED; so a DEAL_CREATED or FAILED deal is never
\* set back to PENDING, UPLOADED or PIECE_ADDED.
C1_StatusOnlyForward ==
    [][\A p \in Providers :
          deal[p] # NoRecord => StatusStep(deal[p].status, deal'[p].status)]_vars

\* A deal that went through both callbacks and then failed, with its
\* verification task over: every writer of the status has run.
C1_Witness ==
    \E p \in Providers :
        /\ dpc[p] = "settled"
        /\ cb[p] = 2
        /\ deal[p].status = FAILED
        /\ mon[p] = "done"

\* The errors of the provider lookup, createStorage and upload
CollaboratorErrors == {FindOneError, StorageError, UploadError}

\* C2: once createDeal has settled after the provider lookup, createStorage or
\* upload threw, the deal is FAILED, its errorMessage is the message of that
\* error and createDeal has rejected with that error.
C2_FailureMarksDealAndRethrows ==
    \A p \in Providers :
        (dpc[p] = "settled" /\ thrown[p] \in CollaboratorErrors)
        => /\ deal[p].status = FAILED
           /\ deal[p].errorMessage = thrown[p]
           /\ outcome[p] = [status |-> "rejected", reason |-> thrown[p]]

\* upload() rejected after onUploadComplete fired, and createDeal has settled.
C2_Witness ==
    \E p \in Providers :
        /\ dpc[p] = "settled"
        /\ thrown[p] = UploadError
        /\ cb[p] = 1

\* C3: when the save of the finally block failed, createDeal settles as it
\* would have without the failure: it rejects with the original error when it
\* had failed, and returns the Deal, in status DEAL_CREATED, when it had not.
C3_SaveFailureSwallowed ==
    \A p \in Providers :
        (dpc[p] = "settled" /\ saveFailed[p])
        => IF thrown[p] # NULL
           THEN outcome[p] = [status |-> "rejected", reason |-> thrown[p]]
           ELSE /\ outcome[p] = [status |-> "fulfilled", reason |-> NULL]
                /\ deal[p].status = DEAL_CREATED

\* createDeal returned its Deal although the save of the finally block failed.
C3_Witness ==
    \E p \in Providers :
        /\ dpc[p] = "settled"
        /\ saveFailed[p]
        /\ outcome[p].status = "fulfilled"

\* C4: from the moment createStorage threw, the deal has been handed to save
\* exactly once, no upload callback has fired and no add-on hook was invoked,
\* and this stays so for the rest of the run.
C4_StorageFailureSavesOnce ==
    \A p \in Providers :
        thrown[p] = StorageError
        => /\ saveCount[p] = 1
           /\ cb[p] = 0
           /\ hookCalls[p] = 0
           /\ mon[p] = "none"

\* createStorage threw for a deal with the IPNI add-on applied and a provider
\* record, and createDeal has settled.
C4_Witness ==
    \E p \in Providers :
        /\ dpc[p] = "settled"
        /\ thrown[p] = StorageError
        /\ IpniTracks(deal[p])

\* C5: every Deal handed to save while its status is DEAL_CREATED, by
\* createDeal or by the verification task, has a piece CID and a dataSetId,
\* and so has every Deal that createDeal returned.
C5_CreatedDealIsComplete ==
    \A p \in Providers :
        /\ (lastSave[p] # NoRecord /\ lastSave[p].status = DEAL_CREATED)
           => (lastSave[p].pieceCid # NULL /\ lastSave[p].dataSetId # NULL)
        /\ outcome[p].status = "fulfilled"
           => (deal[p].pieceCid # NULL /\ deal[p].dataSetId # NULL)

\* The verification task hands a deal to save that createDeal had returned
\* in status DEAL_CREATED.
C5_Witness ==
    \E p \in Providers :
        /\ mon[p] = "saving"
        /\ lastSave[p].status = DEAL_CREATED
        /\ outcome[p].status = "fulfilled"


\* ------------------------------------------------------------ batch fan-out

\* ceil(n / g)
CeilDiv(n, g) == (n + g - 1) \div g

\* The k-th of the consecutive slices of at most maxConcurrency providers
ExpectedGroup(k) ==
    [j \in 1..Min(maxConcurrency, Len(providers) - (k - 1) * maxConcurrency) |->
        providers[(k - 1) * maxConcurrency + j]]

\* The createDeal calls that have started and not settled
InFlight == {p \in Providers : dpc[p] \notin {"new", "settled"}}

\* C6: the groups processProvidersInParallel forms are the consecutive slices
\* of at most G = maxConcurrency providers, ceil(N / G) of them once the N
\* providers are processed, and at no time are more than G createDeal calls
\* in flight.
C6_GroupsAreConsecutiveSlices ==
    /\ Cardinality(InFlight) <= maxConcurrency
    /\ \A k \in 1..Len(groups) : groups[k] = ExpectedGroup(k)
    /\ Len(groups) <= CeilDiv(Len(providers), maxConcurrency)
    /\ bpc = "done" => Len(groups) = CeilDiv(Len(providers), maxConcurrency)

\* Three providers in groups of two: a full group and a shorter last one.
C6_Witness ==
    /\ bpc = "done"
    /\ Len(providers) = 3
    /\ maxConcurrency = 2
    /\ Len(groups) = 2

\* The index of the group a provider of the list belongs to
GroupOf(p) == (p - 1) \div maxConcurrency

\* C7: a createDeal of a later group has started only if every createDeal of
\* every earlier group has settled, fulfilled or rejected.
C7_GroupsRunOneAfterAnother ==
    \A p \in Range(providers), q \in Range(providers) :
        (GroupOf(p) < GroupOf(q) /\ dpc[q] # "new") => dpc[p] = "settled"

\* The second group has started after a first group of two in which one
\* createDeal fulfilled and the other rejected.
C7_Witness ==
    /\ Len(groups) = 2
    /\ Len(groups[1]) = 2
    /\ outcome[1].status = "rejected"
    /\ outcome[2].status = "fulfilled"
    /\ dpc[3] \notin {"new", "settled"}

\* Array.prototype.filter over the provider list
RECURSIVE FulfilledOf(_)
FulfilledOf(list) ==
    IF list = <<>> THEN <<>>
    ELSE (IF outcome[Head(list)].status = "fulfilled" THEN <<Head(list)>> ELSE <<>>)
         \o FulfilledOf(Tail(list))

\* C8: createDealsForAllProviders raises only before any createDeal was
\* called (the data file or the preprocessing failed), never because
\* providers rejected; when it returns, it returns the Deals of exactly the
\* providers whose createDeal fulfilled, in provider order.
C8_BatchReturnsSuccessfulDeals ==
    /\ bpc = "raised" => \A p \in Providers : dpc[p] = "new"
    /\ (\E p \in Providers : dpc[p] # "new") => batchError = NULL
    /\ bpc = "done" => returned = FulfilledOf(providers)

\* Three providers, the second rejected, the others returned.
C8_Witness ==
    /\ bpc = "done"
    /\ Len(providers) = 3
    /\ outcome[2].status = "rejected"
    /\ returned = <<1, 3>>

\* C9: preprocessDeal is called at most once in a batch run and once when the
\* run returns; createDeal is called at most once per provider and only for
\* providers of the list, with the result of that one preprocessing; when
\* the run returns, createDeal was called exactly once for every provider of
\* the list and has settled, whichever of them failed.
C9_EveryProviderAttemptedOnce ==
    /\ preprocessCalls <= 1
    /\ \A p \in Providers :
          /\ createCalls[p] <= 1
          /\ createCalls[p] = 1 => (p \in Range(providers) /\ dealInput[p] = preprocessed)
    /\ bpc = "done" =>
          /\ preprocessCalls = 1
          /\ \A p \in Range(providers) : createCalls[p] = 1 /\ dpc[p] = "settled"

\* Three providers in groups of two; the first of each group failed and the
\* run returned after attempting all three.
C9_Witness ==
    /\ bpc = "done"
    /\ Len(providers) = 3
    /\ maxConcurrency = 2
    /\ outcome[1].status = "rejected"
    /\ outcome[3].status = "rejected"
    /\ outcome[2].status = "fulfilled"
    /\ \A p \in 1..3 : createCalls[p] = 1

\* ------------------------------------------------- preprocessing pipeline

\* The position at which an add-on name was registered, 0 if it was not
RegistrationIndex(name) ==
    IF \E k \in 1..Len(addons) : addons[k].name = name
    THEN CHOOSE k \in 1..Len(addons) : addons[k].name = name
    ELSE 0

\* C10: when at least one registered add-on is applicable, the applied-addon
\* list preprocessDeal returns names only registered add-ons, in ascending
\* order of their priority, those of equal priority in registration order.
C10_AppliedAddonsSorted ==
    (ppc = "done" /\ \E k \in 1..Len(addons) : addons[k].applicable)
    => LET applied == preprocessed.appliedAddons
       IN  /\ \A k \in 1..Len(applied) : RegistrationIndex(applied[k]) # 0
           /\ \A k \in 1..Len(applied), m \in 1..Len(applied) :
                 k < m =>
                    LET a == addons[RegistrationIndex(applied[k])]
                        b == addons[RegistrationIndex(applied[m])]
                    IN  \/ a.priority < b.priority
                        \/ /\ a.priority = b.priority
                           /\ RegistrationIndex(a.name) < RegistrationIndex(b.name)

\* Three applicable add-ons, the two registered first sharing a priority
\* that is higher in number than the priority of the third.
C10_Witness ==
    /\ ppc = "done"
    /\ Len(preprocessed.appliedAddons) = 3
    /\ addons[1].priority = addons[2].priority
    /\ addons[3].priority < addons[1].priority

\* No registered add-on answers isApplicable with true
NoneApplicable == \A k \in 1..Len(addons) : ~addons[k].applicable

\* C11: when no registered add-on is applicable, the add-ons preprocessDeal
\* selects are the direct add-on alone, it executes no other add-on, and the
\* applied-addon list it returns is exactly the direct add-on's name.
C11_FallbackToDirect ==
    (NoneApplicable /\ ppc # "idle")
    => /\ Len(sortedAddons) = 1
       /\ sortedAddons[1].name = DIRECT_SP
       /\ appliedAddons \in {<<>>, <<DIRECT_SP>>}
       /\ ppc = "done" => preprocessed.appliedAddons = <<DIRECT_SP>>

\* preprocessDeal returned for a registry in which nothing is applicable.
C11_Witness ==
    /\ NoneApplicable
    /\ ppc = "done"
    /\ preprocessed.appliedAddons = <<DIRECT_SP>>

\* The scenario configuration: CDN requested, IPNI not
CdnOnly == [enableCDN |-> TRUE, enableIpni |-> FALSE]

ExportChoices(name) ==
    {NoRecord,
     [dataSetMetadata |-> {<<"k1", name>>}, pieceMetadata |-> {}],
     [dataSetMetadata |-> {<<"k2", name>>}, pieceMetadata |-> {}],
     [dataSetMetadata |-> {}, pieceMetadata |-> {<<"k1", name>>}],
     [dataSetMetadata |-> {<<"k1", name>>, <<"k2", name>>},
      pieceMetadata |-> {<<"k1", name>>}]}

\* DealAddonsService.preprocessDeal over registries of three add-ons with any
\* priorities, isApplicable answers and configuration exports, so that
\* add-ons export the same key.
InitMerge ==
    /\ config = [enableCDN |-> FALSE, enableIpni |-> FALSE]
    /\ \E pd \in AddonPriority, pc \in AddonPriority, pi \in AddonPriority :
       \E ad \in BOOLEAN, ac \in BOOLEAN, ai \in BOOLEAN :
       \E ed \in ExportChoices(DIRECT_SP), ec \in ExportChoices(CDN),
          ei \in ExportChoices(IPFS_PIN) :
          addons = registerAddons(StubAddon(DIRECT_SP, pd, ad, ed),
                                  StubAddon(CDN, pc, ac, ec),
                                  StubAddon(IPFS_PIN, pi, ai, ei))
    /\ providers = <<>>
    /\ spRecords = {}
    /\ maxConcurrency = DefaultMaxConcurrency
    /\ InitPipeline
    /\ bpc = "preprocess"
    /\ dataFile = <<"kaggle">>
    /\ fetchCalls = <<fetchKaggleDataset(MIN_UPLOAD_SIZE, MAX_UPLOAD_SIZE)>>
    /\ fetchFailures = {}
    /\ i = 0
    /\ results = <<>>
    /\ groups = <<>>
    /\ returned = <<>>
    /\ batchError = NULL
    /\ InitDeals
    /\ NotParsing
    /\ NotStepping
    /\ NotPolling
    /\ NotVerifying

SpecMerge == InitMerge /\ [][NextAddons]_vars

\* The two namespaces of a SynapseConfig
Namespaces == {"dataSetMetadata", "pieceMetadata"}

\* What the j-th applied add-on exports in a namespace
ExportOf(j, ns) ==
    LET cfg == getSynapseConfig(AddonsGet(addons, preprocessed.appliedAddons[j]),
                                preprocessed.metadata)
    IN  IF cfg = NoRecord THEN {} ELSE cfg[ns]

\* The positions in execution order of the applied add-ons exporting a key
ExportersOf(key, ns) ==
    {j \in 1..Len(preprocessed.appliedAddons) : key \in Keys(ExportOf(j, ns))}

\* C13: in the dataset-level and in the piece-level namespace, the merged
\* configuration preprocessDeal returns has exactly the keys exported by the
\* applied add-ons, one value per key, and the value of a key is the one
\* exported by the last add-on in execution order that exports the key.
C13_MergeLastWriteWins ==
    ppc = "done"
    => \A ns \in Namespaces :
          LET merged == preprocessed.synapseConfig[ns]
          IN  /\ Keys(merged) =
                    UNION {Keys(ExportOf(j, ns)) : j \in 1..Len(preprocessed.appliedAddons)}
              /\ \A kv \in merged, other \in merged : kv[1] = other[1] => kv = other
              /\ \A kv \in merged :
                    \E j \in ExportersOf(kv[1], ns) :
                       /\ \A m \in ExportersOf(kv[1], ns) : m <= j
                       /\ kv \in ExportOf(j, ns)

\* Two applied add-ons export the same dataset-level key, a third add-on is
\* registered but not applied.
C13_Witness ==
    /\ ppc = "done"
    /\ Len(preprocessed.appliedAddons) = 2
    /\ Cardinality(ExportersOf("k1", "dataSetMetadata")) = 2

\* ------------------------------------------------------- pipeline failure

\* The error names the add-on and carries the cause
NamesAddon(error, name) ==
    \E cause \in FailureCauses :
        error = "Deal preprocessing failed: Add-on " \o name
                \o " preprocessing failed: " \o cause

\* C14: when preprocessData or validate of the i-th add-on in execution order
\* throws, preprocessDeal rejects with an error naming that add-on, the
\* add-ons after it are never executed, and nothing is returned: no payload,
\* no metadata, no merged configuration, no applied-addon list; the batch
\* run that called it creates no deal.
C14_FailureAbortsPipeline ==
    /\ [](ppc = "failed"
          => /\ Len(appliedAddons) < Len(sortedAddons)
             /\ NamesAddon(pipelineError, sortedAddons[Len(appliedAddons) + 1].name)
             /\ preprocessed = NoRecord
             /\ \A p \in Providers : dpc[p] = "new")
    /\ [][ppc = "failed"
          => /\ ppc' = "failed"
             /\ appliedAddons' = appliedAddons
             /\ preprocessed' = preprocessed]_vars

\* The first of two add-ons failed, the second never ran, and the batch run
\* has rejected with the error.
C14_Witness ==
    /\ ppc = "failed"
    /\ Len(sortedAddons) = 2
    /\ Len(appliedAddons) = 0
    /\ bpc = "raised"
    /\ batchError = pipelineError

\* ---------------------------------------------------------- repeated runs

NextRerun ==
    \/ PreprocessDeal
    \/ PreprocessDealAgain
    \/ ExecuteAddon
    \/ AddonFails
    \/ FinishPreprocess

\* preprocessDeal called up to MaxRuns times on one configuration and one
\* registry of three add-ons with any priorities and isApplicable answers.
SpecRerun == InitAddons /\ [][NextRerun]_vars

\* C15: when preprocessDeal returns after an earlier call on the same
\* configuration returned, its result is the earlier one: the same
\* applied-addon list in the same order, the same dataset-level and
\* piece-level configuration, and the same payload and metadata (nothing of
\* the earlier run is carried into the later one).
C15_PreprocessIsRepeatable ==
    [][(ppc = "pipeline" /\ ppc' = "done" /\ preprocessed # NoRecord)
       => /\ preprocessed'.appliedAddons = preprocessed.appliedAddons
          /\ preprocessed'.synapseConfig.dataSetMetadata
                = preprocessed.synapseConfig.dataSetMetadata
          /\ preprocessed'.synapseConfig.pieceMetadata
                = preprocessed.synapseConfig.pieceMetadata
          /\ preprocessed'.processedData = preprocessed.processedData
          /\ preprocessed'.metadata = preprocessed.metadata]_vars

\* The second call returned after applying three add-ons.
C15_Witness ==
    /\ preprocessCalls = 2
    /\ ppc = "done"
    /\ Len(preprocessed.appliedAddons) = 3

\* -------------------------------------------------------- verification task

\* The verification task of a deal has been started and has not ended
MonitorActive(p) == mon[p] \in {"running", "saving", "failSaving"}

\* The positions of createDeal that do not wait for a hook
Unhooked == {"upload", "postProcess", "saving", "settled"}

\* C16: createDeal never waits for the verification task: while the task is
\* active createDeal is past the hook that started it and each of its pending
\* steps can be taken, up to settling, and the batch call can return. Nothing
\* the orchestrator does stops the task: while it is polling or verifying it
\* can always finish or fail, also after createDeal settled and the batch
\* call returned, and the step that ends its work hands the Deal with the
\* derived verification status to save.
C16_MonitorNotAwaited ==
    /\ [](\A p \in Providers :
            /\ MonitorActive(p) => dpc[p] \in Unhooked
            /\ (MonitorActive(p) /\ dpc[p] = "upload")
               => (ENABLED UploadResolves(p) /\ ENABLED UploadRejects(p))
            /\ (MonitorActive(p) /\ dpc[p] = "postProcess") => ENABLED PostProcessSettles(p)
            /\ (MonitorActive(p) /\ dpc[p] = "saving") => ENABLED SaveSettles(p)
            /\ mon[p] = "running" => (ENABLED MonitorFinishes(p) /\ ENABLED MonitorThrows(p))
            /\ mon[p] = "saving" => ENABLED MonitorSaveSettles(p))
    /\ []((bpc = "await" /\ AllSettled(groups[Len(groups)])) => ENABLED GroupSettles)
    /\ [][\A p \in Providers :
            (mon[p] = "running" /\ mon'[p] # "running")
            => /\ saveCount'[p] = saveCount[p] + 1
               /\ lastSave'[p] = deal'[p]
               /\ lastSave'[p].ipniStatus \in IpniOutcomes]_vars

\* The batch call has returned the deal while its verification task is
\* still running.
C16_Witness ==
    /\ bpc = "done"
    /\ \E p \in Providers :
          /\ outcome[p].status = "fulfilled"
          /\ mon[p] = "running"

\* The verification task of a deal was started
MonitorStarted(p) == mon[p] \in {"running", "saving", "failSaving", "done"}

\* The IPNI add-on was applied to the deal and its provider record was found
IndexedWithProvider(p) ==
    /\ IPFS_PIN \in Range(deal[p].serviceTypes)
    /\ deal[p].storageProvider = "record"

\* The statement of C17 as claimed: once the upload-complete callback of a
\* deal has fired and its hooks are over, a verification task was started.
C17_Original ==
    \A p \in Providers :
        (cb[p] >= 1 /\ dpc[p] # "hookSave") => MonitorStarted(p)

\* C17 (amended): at most one verification task is started per Deal, and only
\* in the hook phase of its upload-complete callback: never before the
\* callback, never outside the hook, never a second time. Once the hooks of
\* the callback are over, a task was started exactly if the IPNI add-on was
\* applied, the deal has a provider record and the hook's save of the
\* PENDING verification status succeeded.
C17_MonitorStartedOnceInHook ==
    /\ [](\A p \in Providers :
            /\ cb[p] = 0 => mon[p] = "none"
            /\ (cb[p] >= 1 /\ dpc[p] # "hookSave")
               => (MonitorStarted(p) <=> (IndexedWithProvider(p) /\ mon[p] # "unstarted")))
    /\ [][\A p \in Providers :
            /\ (mon'[p] = "running" /\ mon[p] # "running")
               => (mon[p] = "none" /\ dpc[p] = "hookSave" /\ cb[p] = 1)
            /\ mon[p] # "none" => mon'[p] # "none"]_vars

\* A task was started in the hook of an IPNI deal and has ended, and the
\* deal's upload went on to the second callback.
C17_Witness ==
    \E p \in Providers :
        /\ mon[p] = "done"
        /\ cb[p] = 2
        /\ IndexedWithProvider(p)

\* The verification task of a deal has mutated the deal and handed it to save
MonitorWrote(p) == mon[p] \in {"saving", "failSaving", "done"}

\* C18: every mutation and every save of a Deal by createDeal and its
\* callbacks happens before the first mutation or save of that Deal by its
\* verification task: once the task has written, a step that is not the
\* task's neither changes the Deal nor hands it to save.
C18_OrchestratorWritesBeforeMonitor ==
    [][\A p \in Providers :
          (MonitorWrote(p) /\ mon'[p] = mon[p])
          => (deal'[p] = deal[p] /\ saveCount'[p] = saveCount[p])]_vars

\* Polling has ended: monitorPieceStatus returned or threw
PollingStopped == mpc \in {"returned", "thrown"}

\* A status query was issued in this step
QueryIssued == checkCount' = checkCount + 1

\* C19: status queries are issued at least one poll interval apart and none is
\* issued once the polling timeout has elapsed; the first poll in which the
\* provider answers retrieved = true ends the polling, and until such a poll
\* the polling goes on up to the timeout; after polling has ended nothing more
\* is queried.
C19_PollingStopsAtRetrievedOrTimeout ==
    /\ [](sawRetrieved => mpc = "returned")
    /\ [](mpc = "returned" => sawRetrieved)
    /\ [](mpc = "thrown" => (~sawRetrieved /\ Elapsed >= maxDurationMs))
    /\ [](mpc = "query" => queryAt - startTime < maxDurationMs)
    /\ [][(QueryIssued /\ queryAt # NoTime) => queryAt' - queryAt >= pollIntervalMs]_vars
    /\ [][PollingStopped => (~QueryIssued /\ mpc' = mpc)]_vars

\* C20: the time kept for the indexed flag and for the advertised flag is the
\* time of the first poll that answered the flag true, in the status carried
\* between polls and in the status returned, and a time once set is not
\* changed by a later poll.
C20_FlagsTimestampedOnce ==
    /\ [](mpc \in {"while", "query", "sleep", "thrown"} =>
            (/\ lastStatus.indexedAt = firstSeen.indexed
             /\ lastStatus.advertisedAt = firstSeen.advertised))
    /\ [](mpc = "returned" =>
            (/\ monitoringResult.finalStatus.indexedAt = firstSeen.indexed
             /\ monitoringResult.finalStatus.advertisedAt = firstSeen.advertised))
    /\ [][/\ lastStatus.indexedAt # NoTime => lastStatus'.indexedAt = lastStatus.indexedAt
          /\ lastStatus.advertisedAt # NoTime
                => lastStatus'.advertisedAt = lastStatus.advertisedAt]_vars

\* The verification stages in their order; a Deal whose verification has not
\* begun (ipniStatus null) stands before all of them.
IpniRank(st) ==
    CASE st = NULL -> 0
      [] st = IPNI_PENDING -> 1
      [] st = SP_INDEXED -> 2
      [] st = SP_ADVERTISED -> 3
      [] st = SP_RECEIVED_RETRIEVE_REQUEST -> 4
      [] st = VERIFIED -> 5
      [] st = IPNI_FAILED -> 6

\* One change of a verification status that the lifecycle allows: forward
\* along the stages, or to FAILED from a status that is not terminal.
IpniStep(old, new) ==
    \/ new = old
    \/ new = IPNI_FAILED /\ old \notin {VERIFIED, IPNI_FAILED}
    \/ new # IPNI_FAILED /\ old # IPNI_FAILED /\ IpniRank(new) > IpniRank(old)

\* C23: the verification status of a Deal only moves forward along
\* PENDING, SP_INDEXED, SP_ADVERTISED, SP_RECEIVED_RETRIEVE_REQUEST, VERIFIED
\* and becomes FAILED only from a non-terminal status; a VERIFIED status is
\* never changed, also when a save of the monitor fails.
C23_IpniStatusOnlyForward ==
    [][\A p \in Providers :
          (deal[p] # NoRecord /\ deal'[p] # NoRecord)
          => IpniStep(deal[p].ipniStatus, deal'[p].ipniStatus)]_vars

\* The verification task of p takes a step
MonitorSteps(p) == MonitorActive(p) /\ mon'[p] # mon[p]

\* C28: no step of the verification task, its failures included (an error
\* thrown in the task, a rejected save), changes the Deal's primary status,
\* settles or rejects createDeal, or changes what the batch collects and
\* returns; a createDeal that rejected did so with an error of its own
\* collaborators.
C28_MonitorFailuresStayInside ==
    /\ [][\A p \in Providers :
            MonitorSteps(p)
            => /\ deal'[p].status = deal[p].status
               /\ deal'[p].errorMessage = deal[p].errorMessage
               /\ outcome' = outcome
               /\ thrown' = thrown
               /\ dpc' = dpc
               /\ results' = results
               /\ returned' = returned
               /\ batchError' = batchError]_vars
    /\ [](\A p \in Providers : thrown[p] # NULL => thrown[p] \in CollaboratorErrors)

\* The task failed and its deal is nevertheless created and returned
C28_Witness ==
    /\ bpc = "done"
    /\ \E p \in Providers :
          /\ mon[p] = "done"
          /\ deal[p].ipniStatus = IPNI_FAILED
          /\ deal[p].status = DEAL_CREATED
          /\ outcome[p].status = "fulfilled"
          /\ Len(returned) = 1

\* The verification has run to the update of the Deal
MetricsWritten == vpc \in {"saving", "done", "failSaving", "rejected"}

\* The task came to its end without an error
FinishedWithoutError == vpc = "done"

\* The status polling ended by its timeout and monitorAndVerifyIPNI went on
TimedOutAndWentOn == mpc = "thrown" /\ vpc # "poll"

\* C21: when the status polling ended by timeout, the later phases work on
\* the last status observed from the provider: the monitoring result carries
\* the indexed and advertised flags and timestamps of the last answered poll,
\* and the Deal gets the indexed and advertised timestamps of that status.
C21_TimeoutKeepsLastStatus ==
    /\ TimedOutAndWentOn
       => /\ monitoringResult.finalStatus.indexed = lastStatus.indexed
          /\ monitoringResult.finalStatus.advertised = lastStatus.advertised
          /\ monitoringResult.finalStatus.indexedAt = lastStatus.indexedAt
          /\ monitoringResult.finalStatus.advertisedAt = lastStatus.advertisedAt
    /\ (TimedOutAndWentOn /\ vpc \in {"saving", "done"})
       => /\ tracked.ipniStatus = DerivedStatus(lastStatus, ipniResult)
          /\ lastStatus.indexed => tracked.ipniIndexedAt = lastStatus.indexedAt
          /\ lastStatus.advertised => tracked.ipniAdvertisedAt = lastStatus.advertisedAt

\* The highest stage the verification reached: what the index answered for
\* the root identifier and what the provider answered in any poll
HighestStage ==
    IF RootCID \in lookupHit THEN VERIFIED
    ELSE IF sawRetrieved THEN SP_RECEIVED_RETRIEVE_REQUEST
    ELSE IF firstSeen.advertised # NoTime THEN SP_ADVERTISED
    ELSE IF firstSeen.indexed # NoTime THEN SP_INDEXED
    ELSE IPNI_FAILED

\* C22: when the task finishes without error, the verification status of the
\* Deal is the highest stage reached, for every sequence of provider answers
\* and lookup results.
C22_StatusIsHighestStage ==
    FinishedWithoutError => tracked.ipniStatus = HighestStage

\* The status polling ended with a poll whose answer said retrieved
EndedRetrieved ==
    /\ vpc \notin {"idle", "poll"}
    /\ mpc = "returned"
    /\ monitoringResult.finalStatus.retrieved

\* The status polling ended otherwise: by its timeout, or with an answer that
\* did not say retrieved
EndedWithoutRetrieved == vpc \notin {"idle", "poll"} /\ ~EndedRetrieved

\* C24: when the status polling ended with the provider reporting retrieved,
\* the verification and its first index lookup start no earlier than one
\* settle interval after the end of polling; when it ended without, the
\* verification starts at once, with no settle wait.
C24_SettleWaitOnlyAfterRetrieved ==
    /\ vpc = "settle" => (EndedRetrieved /\ firstLookupAt = NoTime)
    /\ (EndedRetrieved /\ vpc # "settle") => verifyStart - pollEndedAt >= SettleDelay
    /\ (EndedRetrieved /\ firstLookupAt # NoTime)
       => firstLookupAt - pollEndedAt >= SettleDelay
    /\ EndedWithoutRetrieved => verifyStart = pollEndedAt
    /\ (EndedWithoutRetrieved /\ firstLookupAt # NoTime) => firstLookupAt = pollEndedAt

\* The polling ended with retrieved and the first lookup was issued exactly one
\* settle interval later
C24_Witness ==
    /\ EndedRetrieved
    /\ firstLookupAt = pollEndedAt + SettleDelay
    /\ lookupCount[RootCID] = 1

\* Every status query of the polling failed and the polling ran into its
\* timeout: the provider was unreachable throughout
ProviderUnreachable == mpc = "thrown" /\ checkCount > 0 /\ resolved = 0

LookupIssued(cid) == lookupCount'[cid] = lookupCount[cid] + 1

\* The block identifiers of the verification
BlockIds == 1..Len(blockCIDs)

C30_StageMetricsWrittenOnce ==
    [][\A stage \in Stages :
          /\ StageAt(tracked, stage) # NoTime
             => /\ StageAt(tracked', stage) = StageAt(tracked, stage)
                /\ StageMetric(tracked', stage) = StageMetric(tracked, stage)
          /\ (StageAt(tracked, stage) = NoTime /\ StageAt(tracked', stage) # NoTime)
             => StageMetric(tracked', stage)
                  = StageAt(tracked', stage) - tracked.uploadEndTime
          /\ StageAt(tracked', stage) = StageAt(tracked, stage)
             => StageMetric(tracked', stage) = StageMetric(tracked, stage)]_vars

\* The Deal had its indexed stage written before and the monitor, whose
\* result says indexed and verified, kept it and wrote the verified stage
C30_Witness ==
    /\ vpc = "done"
    /\ monitoringResult.finalStatus.indexed
    /\ monitoringResult.finalStatus.indexedAt = UploadEnd
    /\ tracked.ipniIndexedAt = 0
    /\ tracked.ipniTimeToIndexMs = 0
    /\ tracked.ipniVerifiedAt > UploadEnd
    /\ tracked.ipniTimeToVerifyMs = tracked.ipniVerifiedAt - UploadEnd

\* The verification task has settled: startIpniMonitoring resolved or rejected
TaskSettled == vpc \in {"done", "rejected"}

SaveFailsIn(p) ==
    \/ dpc[p] = "saving" /\ dpc'[p] = "settled" /\ saveFailed'[p]
    \/ dpc[p] = "hookSave" /\ mon'[p] = "unstarted"
    \/ mon[p] = "saving" /\ mon'[p] = "failSaving"

\* C32: the step in which a save of a Deal fails, in createDeal, in the
\* upload-complete hook or in the verification task, issues no further save
\* of that Deal, and createDeal never rejects with the error of a save.
C32_FailedSaveNotRetried ==
    /\ [][\A p \in Providers : SaveFailsIn(p) => saveCount'[p] = saveCount[p]]_vars
    /\ [](\A p \in Providers : outcome[p].reason # SaveError)

\* upload() resolved for deal p: its result has been applied to the Deal
UploadSucceeded(p) == deal[p] # NoRecord /\ deal[p].pieceId # NULL

\* C33: the error of an onUploadComplete or postProcess handler never reaches
\* the catch of createDeal nor its caller; the step in which a handler
\* rejects neither marks the Deal FAILED nor records an error on it; and
\* whenever the upload has succeeded, createDeal returns the Deal in status
\* DEAL_CREATED, whatever the handlers did.
C33_HookFailureNotPropagated ==
    /\ [](\A p \in Providers :
            /\ thrown[p] # HookError
            /\ outcome[p].reason # HookError
            /\ (UploadSucceeded(p) /\ dpc[p] = "settled")
               => /\ outcome[p] = [status |-> "fulfilled", reason |-> NULL]
                  /\ deal[p].status = DEAL_CREATED
                  /\ deal[p].errorMessage = NULL)
    /\ [][\A p \in Providers :
            hookRejected'[p] # hookRejected[p]
            => /\ deal'[p].status # FAILED
               /\ deal'[p].errorMessage = NULL
               /\ thrown'[p] = thrown[p]]_vars

\* A handler of either kind rejected for a deal, and createDeal returned the
\* deal in status DEAL_CREATED
C33_Witness ==
    \E p \in Providers :
        /\ hookRejected[p] = HookKinds
        /\ dpc[p] = "settled"
        /\ outcome[p].status = "fulfilled"
        /\ deal[p].status = DEAL_CREATED

\* This step lets postProcessDeal invoke the postProcess handlers of deal p
PostProcessInvoked(p) ==
    /\ dpc[p] # "postProcess"
    /\ dpc'[p] = "postProcess"
    /\ hookCalls'[p] > hookCalls[p]

\* C34: when the postProcess handlers of a deal are invoked, the Deal has
\* already been handed to dealRepository.save in status DEAL_CREATED.
C34_PostHooksAfterCreatedSave ==
    [][\A p \in Providers :
          PostProcessInvoked(p)
          => /\ lastSave[p] # NoRecord
             /\ lastSave[p].status = DEAL_CREATED]_vars

\* The calls of the fallback dataset source made so far
FallbackCalls == {k \in 1..Len(fetchCalls) : fetchCalls[k].source = "local"}

\* C35: the primary dataset source is called first, with the size bounds of
\* the batch run; the fallback source is called, once and after it, exactly
\* when the primary fetch failed, and with the same bounds; preprocessing then
\* starts from the fallback's payload; and when both fetches failed the batch
\* call has raised without calling preprocessDeal or createDeal and without
\* creating a Deal.
C35_FallbackIffPrimaryFailed ==
    /\ Len(fetchCalls) <= 2
    /\ bpc # "start"
       => fetchCalls[1] = [source |-> "kaggle", minSize |-> MIN_UPLOAD_SIZE,
                           maxSize |-> MAX_UPLOAD_SIZE]
    /\ FallbackCalls # {} <=> "kaggle" \in fetchFailures
    /\ \A k \in FallbackCalls :
          /\ k = 2
          /\ fetchCalls[k].minSize = fetchCalls[1].minSize
          /\ fetchCalls[k].maxSize = fetchCalls[1].maxSize
    /\ preprocessCalls > 0
       => /\ "local" \notin fetchFailures
          /\ Head(context.currentData)
               = (IF "kaggle" \in fetchFailures THEN "local" ELSE "kaggle")
    /\ "local" \in fetchFailures
       => /\ "kaggle" \in fetchFailures
          /\ bpc = "raised"
          /\ batchError # NULL
          /\ preprocessCalls = 0
          /\ \A p \in Providers : createCalls[p] = 0 /\ deal[p] = NoRecord

\* The primary fetch failed and a deal was created from the payload of the
\* fallback
C35_Witness ==
    /\ fetchFailures = {"kaggle"}
    /\ Len(fetchCalls) = 2
    /\ \E p \in Providers :
          /\ dpc[p] = "settled"
          /\ Head(dealInput[p].processedData) = "local"

\* ------------------------------------------------------------ C36

C37_PipelineStrictlySequential ==
    /\ [](/\ Len(trace) <= Len(sortedAddons)
          /\ \A k \in 1..Len(trace) : trace[k].name = sortedAddons[k].name
          /\ \A k \in 1..(Len(trace) - 1) :
                /\ trace[k + 1].data = trace[k].returned.data
                /\ trace[k + 1].size = trace[k].returned.size
          /\ pendingResult # NoRecord =>
                /\ Len(trace) = Len(appliedAddons) + 1
                /\ trace[Len(trace)].returned = pendingResult
                /\ context.currentData = trace[Len(trace)].data
                /\ currentSize = trace[Len(trace)].size
                /\ trace[Len(trace)].name \notin Keys(context.accumulatedMetadata)
          /\ pendingResult = NoRecord /\ ppc # "failed" =>
                /\ Len(trace) = Len(appliedAddons)
                /\ trace # <<>> =>
                      /\ context.currentData = trace[Len(trace)].returned.data
                      /\ currentSize = trace[Len(trace)].returned.size
          /\ Keys(context.accumulatedMetadata) = Range(appliedAddons)
          /\ \A k \in 1..Len(appliedAddons) :
                /\ appliedAddons[k] = trace[k].name
                /\ MetadataOf(context.accumulatedMetadata, appliedAddons[k])
                      = trace[k].returned.metadata
                /\ HasValidate(sortedAddons[k]) => trace[k].validated)
    /\ [][/\ Len(trace') > Len(trace) =>
                pendingResult = NoRecord /\ Len(appliedAddons) = Len(trace)
          /\ appliedAddons' # appliedAddons /\ HasValidate(CurrentAddon) =>
                /\ pendingResult # NoRecord
                /\ trace'[Len(trace)].validated
                /\ Len(trace') = Len(trace)]_vars

\* A run of three add-ons with validations, the IPNI add-on first: the CDN
\* add-on is handed the CAR the IPNI add-on returned, with its size, and the
\* run returns
C37_Witness ==
    /\ ppc = "done"
    /\ Len(trace) = 3
    /\ trace[1].name = IPFS_PIN
    /\ trace[2].name = CDN
    /\ trace[2].data = <<"kaggle", "car">>
    /\ trace[2].size = CarSize(trace[1].size)
    /\ \A k \in 1..3 : trace[k].validated

\* ------------------------------------------------------------ C38

\* C38: when the external verification of a root identifier and B block
\* identifiers has returned, the recorded counts add up to B + 1; the
\* verified count is the number of identifiers a lookup found at the expected
\* address and every other identifier, the block identifiers never looked up
\* after the phase timeout among them, is counted unverified; and when the
\* root was not verified, verified is 0 and unverified is B + 1.
C38_CountsCoverAllIdentifiers ==
    ipniResult # NoRecord =>
        LET B == Len(blockCIDs)
            identifiers == {RootCID} \cup Range(blockCIDs)
            skipped == {k \in 1..B : lookupCount[blockCIDs[k]] = 0}
        IN  /\ ipniResult.verified + ipniResult.unverified = B + 1
            /\ ipniResult.verified = Cardinality(identifiers \cap lookupHit)
            /\ ipniResult.unverified = Cardinality(identifiers \ lookupHit)
            /\ ipniResult.unverified >= Cardinality(skipped)
            /\ RootCID \in lookupHit <=> ipniResult.rootCIDVerified
            /\ ~ipniResult.rootCIDVerified =>
                  /\ ipniResult.verified = 0
                  /\ ipniResult.unverified = B + 1
                  /\ Cardinality(skipped) = B

\* The root and the first of two blocks were verified, then the phase timed
\* out: the second block was never looked up and is the one unverified
C38_Witness ==
    /\ ipniResult # NoRecord
    /\ Len(blockCIDs) = 2
    /\ ipniResult.rootCIDVerified
    /\ lookupCount[blockCIDs[1]] = 1
    /\ lookupCount[blockCIDs[2]] = 0
    /\ Len(ipniResult.failedCIDs) = 0
    /\ ipniResult.verified = 2
    /\ ipniResult.unverified = 1

\* ------------------------------------------------------------ C39

\* C39: once preprocessing has failed in a batch run, the only thing
\* createDealsForAllProviders does is raise the error preprocessDeal rejected
\* with; createDeal has been and is invoked for no provider, no group of
\* providers is started, no Deal is created and none is saved.
C39_PreprocessFailureStopsBatch ==
    /\ [](ppc = "failed" =>
            /\ pipelineError # NULL
            /\ preprocessed = NoRecord
            /\ bpc \in {"preprocess", "raised"}
            /\ bpc = "raised" => batchError = pipelineError
            /\ i = 0 /\ groups = <<>> /\ results = <<>> /\ returned = <<>>
            /\ \A p \in Providers :
                  /\ createCalls[p] = 0
                  /\ dpc[p] = "new"
                  /\ deal[p] = NoRecord
                  /\ dealInput[p] = NoRecord
                  /\ saveCount[p] = 0
                  /\ lastSave[p] = NoRecord)
    /\ [][ppc = "failed" /\ bpc = "preprocess" =>
            /\ bpc' = "raised"
            /\ batchError' = pipelineError
            /\ createCalls' = createCalls]_vars

\* With the most providers to test, an add-on failed and the batch raised
\* the wrapped error before any createDeal
C39_Witness ==
    /\ ppc = "failed"
    /\ bpc = "raised"
    /\ Len(providers) = MaxProviders
    /\ batchError = pipelineError
    /\ \E a \in Range(sortedAddons), cause \in FailureCauses :
          batchError = PreprocessError(PipelineError(a, cause))
    /\ \A p \in Providers : createCalls[p] = 0 /\ deal[p] = NoRecord

\* ------------------------------------------------------------ C40

\* C40: a Deal whose primary status is FAILED does not end with the
\* verification status VERIFIED, neither in memory nor in the store: when
\* createDeal has settled and the verification task started by the
\* upload-complete callback is over, a FAILED Deal is not VERIFIED.
C40_FailedDealNeverVerified ==
    \A p \in Providers :
        (/\ dpc[p] = "settled"
         /\ mon[p] = "done"
         /\ deal[p].status = FAILED)
        => /\ deal[p].ipniStatus # VERIFIED
           /\ lastSave[p].ipniStatus # VERIFIED

====
